---- MODULE Spec2Model ----
(***************************************************************************)
(* Warehouse bin service of BinMaster.                                     *)
(*                                                                         *)
(* Two implementations of the same CAP service are modelled:               *)
(*   - the S/4HANA variant (srv/warehouse-service.js with the Cloud SDK),  *)
(*     whose handlers map every record through mapBinToS4 / mapS4ToBin     *)
(*     and talk to a remote OData source (variable s4);                    *)
(*   - the local-database variant, whose custom code is only the two       *)
(*     `before` handlers and whose writes are the generic CRUD of the      *)
(*     Bins projection (variable db).                                      *)
(*                                                                         *)
(* The screens of the mobile client (create form, barcode scan, bin        *)
(* detail) are modelled by the state of their React components.            *)
(*                                                                         *)
(* JavaScript strings are sequences of one-character strings, so that      *)
(* split, trim, toString and parseInt are computed and not assumed.        *)
(* A JavaScript object is a function whose DOMAIN is the set of property   *)
(* names that are defined; an undefined property is an absent key.         *)
(***************************************************************************)
EXTENDS Integers, Sequences, FiniteSets, TLC

VARIABLES s4, db, uniqueKey, down, req, clock, probe,
          createForm, scanScreen, detailScreen

\* the state of the service and of its sources / of the screens of the client
service == <<s4, db, uniqueKey, down, req, clock, probe>>
screens == <<createForm, scanScreen, detailScreen>>

vars == <<service, screens>>

(***************************************************************************)
(* Bounds of the model.                                                    *)
(***************************************************************************)
MaxBins == 2
MaxQty == 1
MaxClock == 1
MaxReq == 2
MaxFieldBins == 1

(***************************************************************************)
(* JavaScript string and number primitives.                                *)
(***************************************************************************)
Has(o, k) == k \in DOMAIN o

Digits == <<"0", "1", "2", "3", "4", "5", "6", "7", "8", "9">>

IsDigit(c) == \E i \in 1..10 : Digits[i] = c

DigitVal(c) == (CHOOSE i \in 1..10 : Digits[i] = c) - 1

IsSpace(c) == c = " "

RECURSIVE NatToString(_)
NatToString(n) ==
  IF n < 10 THEN <<Digits[n + 1]>>
  ELSE NatToString(n \div 10) \o <<Digits[(n % 10) + 1]>>

\* Number.prototype.toString for an integer
toString(n) == IF n < 0 THEN <<"-">> \o NatToString(-n) ELSE NatToString(n)

RECURSIVE trimStart(_)
trimStart(s) ==
  IF s # <<>> /\ IsSpace(Head(s)) THEN trimStart(Tail(s)) ELSE s

RECURSIVE trimEnd(_)
trimEnd(s) ==
  IF s # <<>> /\ IsSpace(s[Len(s)]) THEN trimEnd(SubSeq(s, 1, Len(s) - 1)) ELSE s

\* String.prototype.trim
trim(s) == trimEnd(trimStart(s))

\* the leading run of decimal digits of s, read as a number (acc = value so far)
RECURSIVE DigitsPrefix(_, _)
DigitsPrefix(s, acc) ==
  IF s # <<>> /\ IsDigit(Head(s))
  THEN DigitsPrefix(Tail(s), acc * 10 + DigitVal(Head(s)))
  ELSE acc

\* parseInt(string): leading white space, an optional sign, then the digits
\* up to the first character that is not one (strings without a digit, for
\* which JavaScript yields NaN, are not produced by toString and not drawn)
parseInt(str) ==
  LET s == trimStart(str)
  IN  IF s # <<>> /\ Head(s) = "-" THEN 0 - DigitsPrefix(Tail(s), 0)
      ELSE IF s # <<>> /\ Head(s) = "+" THEN DigitsPrefix(Tail(s), 0)
      ELSE DigitsPrefix(s, 0)

\* String.prototype.split(sep) for a one-character separator
RECURSIVE split(_, _)
split(s, sep) ==
  IF \E i \in 1..Len(s) : s[i] = sep
  THEN LET i == CHOOSE j \in 1..Len(s) : s[j] = sep /\ \A k \in 1..(j - 1) : s[k] # sep
       IN  <<SubSeq(s, 1, i - 1)>> \o split(SubSeq(s, i + 1, Len(s)), sep)
  ELSE <<s>>

\* o[k] || dflt for a string property
StrOr(o, k, dflt) == IF Has(o, k) /\ o[k] # <<>> THEN o[k] ELSE dflt

\* a > b as the handlers evaluate it on request data: a comparison with an
\* undefined operand is false
Gt(o, a, b) == Has(o, a) /\ Has(o, b) /\ o[a] > o[b]

\* { ...a, ...b }
Spread(a, b) == b @@ a

BULK == <<"B", "U", "L", "K">>
X == <<"X">>
Delim == <<" ", "-", " ">>

(***************************************************************************)
(* Field mapper of the S/4HANA variant.                                    *)
(***************************************************************************)
\* mapS4ToBin with the two quantity columns exchanged
mapS4ToBin_swapped(s4Bin, now) ==
  (IF Has(s4Bin, "StorageBin")
   THEN [ID |-> s4Bin.StorageBin, binNumber |-> s4Bin.StorageBin]
   ELSE <<>>)
  @@
  [location     |-> trim(StrOr(s4Bin, "Warehouse", <<>>) \o Delim
                         \o StrOr(s4Bin, "StorageType", <<>>)),
   capacity     |-> IF Has(s4Bin, "CurrentStock") /\ s4Bin.CurrentStock # <<>>
                    THEN parseInt(s4Bin.CurrentStock) ELSE 0,
   currentStock |-> IF Has(s4Bin, "MaximumStorageCapacity")
                       /\ s4Bin.MaximumStorageCapacity # <<>>
                    THEN parseInt(s4Bin.MaximumStorageCapacity) ELSE 0,
   status       |-> IF Has(s4Bin, "BlockingIndicator")
                       /\ s4Bin.BlockingIndicator # <<>>
                    THEN "inactive" ELSE "active",
   barcode      |-> StrOr(s4Bin, "StorageBin", <<>>),
   lastUpdated  |-> now,
   createdAt    |-> IF Has(s4Bin, "CreationDate") THEN s4Bin.CreationDate ELSE now]

\* mapS4ToBin, evaluated at time now
mapS4ToBin(s4Bin, now) ==
  (IF Has(s4Bin, "StorageBin")
   THEN [ID |-> s4Bin.StorageBin, binNumber |-> s4Bin.StorageBin]
   ELSE <<>>)
  @@
  [location     |-> trim(StrOr(s4Bin, "Warehouse", <<>>) \o Delim
                         \o StrOr(s4Bin, "StorageType", <<>>)),
   capacity     |-> IF Has(s4Bin, "MaximumStorageCapacity")
                       /\ s4Bin.MaximumStorageCapacity # <<>>
                    THEN parseInt(s4Bin.MaximumStorageCapacity) ELSE 0,
   currentStock |-> IF Has(s4Bin, "CurrentStock") /\ s4Bin.CurrentStock # <<>>
                    THEN parseInt(s4Bin.CurrentStock) ELSE 0,
   status       |-> IF Has(s4Bin, "BlockingIndicator")
                       /\ s4Bin.BlockingIndicator # <<>>
                    THEN "inactive" ELSE "active",
   barcode      |-> StrOr(s4Bin, "StorageBin", <<>>),
   lastUpdated  |-> now,
   createdAt    |-> IF Has(s4Bin, "CreationDate") THEN s4Bin.CreationDate ELSE now]

\* mapBinToS4 throws a TypeError when it dereferences an undefined property
mapBinToS4Throws(bin) ==
  \/ ~Has(bin, "location")
  \/ ~Has(bin, "capacity")
  \/ ~Has(bin, "currentStock")

\* bin.location.split('-')[1]?.trim() || 'BULK'
StorageTypeOf(location) ==
  LET parts == split(location, "-")
  IN  IF Len(parts) >= 2 /\ trim(parts[2]) # <<>> THEN trim(parts[2]) ELSE BULK

\* mapBinToS4 (defined when mapBinToS4Throws is false)
mapBinToS4(bin) ==
  (IF Has(bin, "binNumber") THEN [StorageBin |-> bin.binNumber] ELSE <<>>)
  @@
  [Warehouse              |-> trim(split(bin.location, "-")[1]),
   StorageType            |-> StorageTypeOf(bin.location),
   MaximumStorageCapacity |-> toString(bin.capacity),
   CurrentStock           |-> toString(bin.currentStock),
   BlockingIndicator      |-> IF Has(bin, "status") /\ bin.status = "active"
                              THEN <<>> ELSE X]

(***************************************************************************)
(* The remote OData source of the S/4HANA variant, as callS4API reaches    *)
(* it.  The store is the sequence of its records; whether it enforces the  *)
(* StorageBin key is a property of the source (uniqueKey).                 *)
(***************************************************************************)
KeyOf(rec) == IF Has(rec, "StorageBin") THEN rec.StorageBin ELSE <<>>

\* indices of the records that GET/PATCH/DELETE A_WarehouseStorageBin('id') address
S4Match(store, id) == {i \in 1..Len(store) : KeyOf(store[i]) = id}

\* POST is refused by a source that enforces the key when the key is taken or missing
S4PostFails(store, rec, enforce) ==
  enforce /\ (~Has(rec, "StorageBin") \/ S4Match(store, rec.StorageBin) # {})

\* a POST that replaces the record holding the same key instead of adding one
S4Posted_upsert(store, rec) ==
  IF S4Match(store, KeyOf(rec)) = {} THEN Append(store, rec)
  ELSE [store EXCEPT ![CHOOSE i \in S4Match(store, KeyOf(rec)) : TRUE] = rec]

\* an accepted POST adds the record to the entity set
S4Posted(store, rec) == Append(store, rec)

\* PATCH merges the properties of the body into the addressed record
S4Patched(store, i, body) == [store EXCEPT ![i] = body @@ store[i]]

\* PATCH is refused by a source that enforces the key when the body moves
\* the record onto the key of another record
S4PatchFails(store, i, body, enforce) ==
  enforce /\ \E j \in 1..Len(store) : j # i /\ KeyOf(store[j]) = KeyOf(body @@ store[i])

Remove(store, i) == SubSeq(store, 1, i - 1) \o SubSeq(store, i + 1, Len(store))

(***************************************************************************)
(* Requests.  req[r] is the request in slot r: its handler position pc,    *)
(* its req.data, the record read so far and the response.                  *)
(***************************************************************************)
ReqIds == 1..MaxReq

StockMsg == "Current stock cannot exceed capacity"
CreateFailMsg == "Failed to create bin"
UpdateFailMsg == "Failed to update bin"
DeleteFailMsg == "Failed to delete bin"
ReadFailMsg == "Failed to read bins"
StatsFailMsg == "Failed to get statistics"
MandatoryMsg == "Value is required"
NotFoundMsg == "Not Found"
TypeErrorMsg == "TypeError"

Idle == [pc |-> "idle"]

Free(r) == req[r].pc \in {"idle", "done"}

\* a request that has just arrived at handler op of implementation impl
Arrived(impl, op, d, first) ==
  [pc |-> first, impl |-> impl, op |-> op, data |-> d, writes |-> 0]

\* the response of a finished request 
Done(q, code, msg) ==
  [pc |-> "done", impl |-> q.impl, op |-> q.op, data |-> q.data,
   writes |-> q.writes, code |-> code, msg |-> msg]

Ok == "OK"

\* the errors callS4API rethrows (error.message), and a TypeError of the handler
SourceRejected == "400 Bad Request"
SourceNotFound == "404 Not Found"
SourceDown == "503 Service Unavailable"
TypeErrorCause == "TypeError"

\* a catch that swallows the error and answers as if the call had succeeded
Caught_swallowed(q, msg, error) == Done(q, 200, Ok)

\* catch (error) { req.error(500, `${msg}: ${error.message}`) }
Caught(q, msg, error) == Done(q, 500, msg) @@ [cause |-> error]

\* return <the canonical bin>
Returned(done, bin) == done @@ [result |-> bin]

(***************************************************************************)
(* S/4HANA variant: on CREATE Bins.                                        *)
(***************************************************************************)
\* creates of implementation impl that have arrived and not yet answered
Pending(impl) ==
  Cardinality({r \in ReqIds : /\ req[r].pc \in {"validate", "write"}
                              /\ req[r].op = "CREATE" /\ req[r].impl = impl})

S4Create(r, d) ==
  /\ Free(r)
  /\ Len(s4) + Pending("s4") < MaxBins
  /\ req' = [req EXCEPT ![r] = Arrived("s4", "CREATE", d, "validate")]
  /\ UNCHANGED <<s4, db, uniqueKey, down, screens, clock, probe>>

\* the check with its operands exchanged
CreateRejects_swapped(d) == Gt(d, "capacity", "currentStock")

\* the stock/capacity check of on CREATE
CreateRejects(d) == Gt(d, "currentStock", "capacity")

\* the synchronous part of the handler: validate, then map to the S/4 format
S4CreateValidate(r) ==
  LET q == req[r]
  IN  /\ q.pc = "validate" /\ q.impl = "s4" /\ q.op = "CREATE"
      /\ req' = [req EXCEPT ![r] =
                   IF CreateRejects(q.data) THEN Done(q, 400, StockMsg)
                   ELSE IF mapBinToS4Throws(q.data)
                        THEN Caught(q, CreateFailMsg, TypeErrorCause)
                   ELSE [q EXCEPT !.pc = "write"]]
      /\ UNCHANGED <<s4, db, uniqueKey, down, screens, clock, probe>>

\* callS4API('/A_WarehouseStorageBin', 'post', s4Data) and the mapped answer
S4CreateWrite(r) ==
  LET q      == req[r]
      s4Data == mapBinToS4(q.data)
      issued == [q EXCEPT !.writes = @ + 1]
  IN  /\ q.pc = "write" /\ q.impl = "s4" /\ q.op = "CREATE"
      /\ IF down
         THEN /\ req' = [req EXCEPT ![r] = Caught(issued, CreateFailMsg, SourceDown)]
              /\ s4' = s4
         ELSE IF S4PostFails(s4, s4Data, uniqueKey)
         THEN /\ req' = [req EXCEPT ![r] = Caught(issued, CreateFailMsg, SourceRejected)]
              /\ s4' = s4
         ELSE /\ s4' = S4Posted(s4, s4Data)
              /\ req' = [req EXCEPT ![r] =
                           Returned(Done(issued, 200, Ok), mapS4ToBin(s4Data, clock))]
      /\ UNCHANGED <<db, uniqueKey, down, screens, clock, probe>>

(***************************************************************************)
(* S/4HANA variant: on UPDATE Bins.                                        *)
(***************************************************************************)
S4Update(r, d) ==
  /\ Free(r)
  /\ Has(d, "ID")
  /\ req' = [req EXCEPT ![r] = Arrived("s4", "UPDATE", d, "read")]
  /\ UNCHANGED <<s4, db, uniqueKey, down, screens, clock, probe>>

\* "Get current bin first"
S4UpdateRead(r) ==
  LET q == req[r]
  IN  /\ q.pc = "read" /\ q.impl = "s4" /\ q.op = "UPDATE"
      /\ IF down
         THEN req' = [req EXCEPT ![r] = Caught(q, UpdateFailMsg, SourceDown)]
         ELSE IF S4Match(s4, q.data.ID) = {}
         THEN req' = [req EXCEPT ![r] = Caught(q, UpdateFailMsg, SourceNotFound)]
         ELSE \E i \in S4Match(s4, q.data.ID) :
                req' = [req EXCEPT ![r] =
                          [pc |-> "validate", impl |-> q.impl, op |-> q.op,
                           data |-> q.data, writes |-> q.writes,
                           cur |-> mapS4ToBin(s4[i], clock)]]
      /\ UNCHANGED <<s4, db, uniqueKey, down, screens, clock, probe>>

\* the check applied to the supplied fields alone, as on CREATE
UpdateRejects_suppliedOnly(d, currentBin) == Gt(d, "currentStock", "capacity")

\* the stock/capacity check of an update: supplied value, else current value
UpdateRejects(d, currentBin) ==
  LET capacity     == IF Has(d, "capacity") THEN d.capacity ELSE currentBin.capacity
      currentStock == IF Has(d, "currentStock") THEN d.currentStock
                      ELSE currentBin.currentStock
  IN  currentStock > capacity

\* validate, merge, map
S4UpdateValidate(r) ==
  LET q == req[r]
  IN  /\ q.pc = "validate" /\ q.impl = "s4" /\ q.op = "UPDATE"
      /\ req' = [req EXCEPT ![r] =
                   IF UpdateRejects(q.data, q.cur) THEN Done(q, 400, StockMsg)
                   ELSE IF mapBinToS4Throws(Spread(q.cur, q.data))
                        THEN Caught(q, UpdateFailMsg, TypeErrorCause)
                   ELSE [q EXCEPT !.pc = "write"]]
      /\ UNCHANGED <<s4, db, uniqueKey, down, screens, clock, probe>>

\* callS4API(`/A_WarehouseStorageBin('${binId}')`, 'patch', s4Data)
S4UpdateWrite(r) ==
  LET q      == req[r]
      s4Data == mapBinToS4(Spread(q.cur, q.data))
      issued == [q EXCEPT !.writes = @ + 1]
  IN  /\ q.pc = "write" /\ q.impl = "s4" /\ q.op = "UPDATE"
      /\ IF down
         THEN /\ req' = [req EXCEPT ![r] = Caught(issued, UpdateFailMsg, SourceDown)]
              /\ s4' = s4
         ELSE IF S4Match(s4, q.data.ID) = {}
         THEN /\ req' = [req EXCEPT ![r] = Caught(issued, UpdateFailMsg, SourceNotFound)]
              /\ s4' = s4
         ELSE \E i \in S4Match(s4, q.data.ID) :
                IF S4PatchFails(s4, i, s4Data, uniqueKey)
                THEN /\ req' = [req EXCEPT ![r] =
                                  Caught(issued, UpdateFailMsg, SourceRejected)]
                     /\ s4' = s4
                ELSE /\ s4' = S4Patched(s4, i, s4Data)
                     /\ req' = [req EXCEPT ![r] = [issued EXCEPT !.pc = "reread"]]
      /\ UNCHANGED <<db, uniqueKey, down, screens, clock, probe>>

\* "Return updated bin": the record is read again under the old id
S4UpdateReread(r) ==
  LET q == req[r]
  IN  /\ q.pc = "reread" /\ q.impl = "s4" /\ q.op = "UPDATE"
      /\ IF down
         THEN req' = [req EXCEPT ![r] = Caught(q, UpdateFailMsg, SourceDown)]
         ELSE IF S4Match(s4, q.data.ID) = {}
         THEN req' = [req EXCEPT ![r] = Caught(q, UpdateFailMsg, SourceNotFound)]
         ELSE \E i \in S4Match(s4, q.data.ID) :
                req' = [req EXCEPT ![r] =
                          Returned(Done(q, 200, Ok), mapS4ToBin(s4[i], clock))]
      /\ UNCHANGED <<s4, db, uniqueKey, down, screens, clock, probe>>

(***************************************************************************)
(* S/4HANA variant: on DELETE Bins.                                        *)
(***************************************************************************)
S4Delete(r, id) ==
  /\ Free(r)
  /\ req' = [req EXCEPT ![r] = Arrived("s4", "DELETE", [ID |-> id], "write")]
  /\ UNCHANGED <<s4, db, uniqueKey, down, screens, clock, probe>>

S4DeleteWrite(r) ==
  LET q      == req[r]
      issued == [q EXCEPT !.writes = @ + 1]
  IN  /\ q.pc = "write" /\ q.impl = "s4" /\ q.op = "DELETE"
      /\ IF down
         THEN /\ req' = [req EXCEPT ![r] = Caught(issued, DeleteFailMsg, SourceDown)]
              /\ s4' = s4
         ELSE IF S4Match(s4, q.data.ID) = {}
         THEN /\ req' = [req EXCEPT ![r] = Caught(issued, DeleteFailMsg, SourceNotFound)]
              /\ s4' = s4
         ELSE \E i \in S4Match(s4, q.data.ID) :
                /\ s4' = Remove(s4, i)
                /\ req' = [req EXCEPT ![r] = Done(issued, 200, Ok)]
      /\ UNCHANGED <<db, uniqueKey, down, screens, clock, probe>>

\* on READ Bins with no filter: every record of the first page, mapped at time now
READ(store, now) == [i \in 1..Len(store) |-> mapS4ToBin(store[i], now)]

\* time passes
Tick ==
  /\ clock < MaxClock
  /\ clock' = clock + 1
  /\ UNCHANGED <<s4, db, uniqueKey, down, screens, req, probe>>

(***************************************************************************)
(* S/4HANA variant: on READ Bins.                                          *)
(*                                                                         *)
(* req.query.SELECT is a CQN object.  A JavaScript value that the handler  *)
(* may meet in more than one type carries its type: [num |-> n] is a       *)
(* number, [arr |-> <<...>>] an array, [obj |-> [...]] a plain object, any  *)
(* other record an object with those properties.  The tokens of a CQN      *)
(* `where` array are [op |-> "or"] for the string 'or', [ref |-> f] for    *)
(* {ref:[f]} and [val |-> v] for {val: v}.                                 *)
(***************************************************************************)
Num(n) == [num |-> n]

ObjectObject ==
  <<"[", "o", "b", "j", "e", "c", "t", " ", "O", "b", "j", "e", "c", "t", "]">>

\* the value is truthy: every object and array is, a number unless it is 0
Truthy(v) == IF Has(v, "num") THEN v.num # 0 ELSE TRUE

\* `${v}` in a template literal
Interpolate(v) == IF Has(v, "num") THEN toString(v.num) ELSE ObjectObject

\* req.query.SELECT?.limit || 100
TopOf(SELECT) ==
  IF Has(SELECT, "limit") /\ Truthy(SELECT.limit) THEN SELECT.limit ELSE Num(100)

\* req.query.SELECT?.from?.ref?.[0]?.where?.$skip || 0
SkipOf(SELECT) ==
  IF /\ Has(SELECT, "from") /\ Has(SELECT.from, "ref") /\ Len(SELECT.from.ref) >= 1
     /\ Has(SELECT.from.ref[1], "where")
     /\ Has(SELECT.from.ref[1].where, "obj")
     /\ Has(SELECT.from.ref[1].where.obj, "$skip")
     /\ Truthy(SELECT.from.ref[1].where.obj["$skip"])
  THEN SELECT.from.ref[1].where.obj["$skip"]
  ELSE Num(0)

\* Array.isArray(where) && where.includes('or')
IncludesOr(where) ==
  Has(where, "arr") /\ \E i \in 1..Len(where.arr) : where.arr[i] = [op |-> "or"]

\* a term that counts also when it is the empty string
TermTruthy_defined(term) == TRUE

\* a string is truthy unless it is the empty string
TermTruthy(term) == term # <<>>

\* w.val is truthy
HasVal(w) == Has(w, "val") /\ TermTruthy(w.val)

\* the searchTerm where.find(w => w.val)?.val finds, if any
NoTerm == [found |-> FALSE]

SearchTermOf(where) ==
  LET hits == {i \in 1..Len(where.arr) : HasVal(where.arr[i])}
  IN  IF hits = {} THEN NoTerm
      ELSE [found |-> TRUE,
            term |-> where.arr[CHOOSE i \in hits : \A j \in hits : i <= j].val]

\* filters.push(`(substringof(term,StorageBin) eq true or substringof(term,Warehouse) eq true)`)
SearchFilter(term) ==
  [kind |-> "substringof", term |-> term, fields |-> {"StorageBin", "Warehouse"}]

\* filters.push(`BlockingIndicator eq '${status}'`)
StatusFilter(status) ==
  [kind |-> "eq", field |-> "BlockingIndicator",
   value |-> IF status = <<"a", "c", "t", "i", "v", "e">> THEN <<>> ELSE X]

\* where.status is truthy: where is a plain object with a non-empty status
HasStatus(where) ==
  Has(where, "obj") /\ Has(where.obj, "status") /\ where.obj.status # <<>>

\* the filters array of on READ
FiltersOf(SELECT) ==
  IF ~Has(SELECT, "where") THEN <<>>
  ELSE LET where == SELECT.where
       IN  (IF /\ IncludesOr(where) /\ SearchTermOf(where).found
               /\ TermTruthy(SearchTermOf(where).term)
            THEN <<SearchFilter(SearchTermOf(where).term)>> ELSE <<>>)
           \o
           (IF HasStatus(where) THEN <<StatusFilter(where.obj.status)>> ELSE <<>>)

\* the OData query on READ sends: $top, $skip and the filters joined by ' and '
QueryOf(SELECT) ==
  [top    |-> Interpolate(TopOf(SELECT)),
   skip   |-> Interpolate(SkipOf(SELECT)),
   filter |-> FiltersOf(SELECT)]

(***************************************************************************)
(* The OData source answering a query on the entity set.                   *)
(***************************************************************************)
\* $top / $skip must be a non-negative integer literal
IsNatLiteral(str) == str # <<>> /\ \A i \in 1..Len(str) : IsDigit(str[i])

S4QueryFails(query) ==
  \/ ~IsNatLiteral(query.top)
  \/ Has(query, "skip") /\ ~IsNatLiteral(query.skip)

\* substringof(term, field)
IsSubstring(term, str) ==
  \E i \in 0..(Len(str) - Len(term)) : SubSeq(str, i + 1, i + Len(term)) = term

Satisfies(rec, f) ==
  IF f.kind = "substringof"
  THEN \E k \in f.fields : Has(rec, k) /\ IsSubstring(f.term, rec[k])
  ELSE Has(rec, f.field) /\ rec[f.field] = f.value

\* the records that satisfy every filter, in the order of the entity set
Filtered(store, filter) ==
  LET Hit(rec) == \A i \in 1..Len(filter) : Satisfies(rec, filter[i])
  IN  SelectSeq(store, Hit)

Min(a, b) == IF a < b THEN a ELSE b

\* d.results: the filtered records after $skip, at most $top of them
S4Results(store, query) ==
  LET hits == Filtered(store, IF Has(query, "filter") THEN query.filter ELSE <<>>)
      skip == IF Has(query, "skip") THEN parseInt(query.skip) ELSE 0
      top  == parseInt(query.top)
  IN  SubSeq(hits, skip + 1, Min(Len(hits), skip + top))

\* response.d?.results?.map(mapS4ToBin) || []
Mapped(results, now) == [i \in 1..Len(results) |-> mapS4ToBin(results[i], now)]

S4Read(r, SELECT) ==
  /\ Free(r)
  /\ req' = [req EXCEPT ![r] = Arrived("s4", "READ", SELECT, "query")]
  /\ UNCHANGED <<s4, db, uniqueKey, down, screens, clock, probe>>

\* build the query, call S/4HANA, map the response
S4ReadQuery(r) ==
  LET q     == req[r]
      query == QueryOf(q.data)
  IN  /\ q.pc = "query" /\ q.impl = "s4" /\ q.op = "READ"
      /\ req' = [req EXCEPT ![r] =
                   IF down
                   THEN Caught(q, ReadFailMsg, SourceDown) @@ [sent |-> query]
                   ELSE IF S4QueryFails(query)
                   THEN Caught(q, ReadFailMsg, SourceRejected) @@ [sent |-> query]
                   ELSE Done(q, 200, Ok)
                        @@ [sent |-> query,
                            result |-> Mapped(S4Results(s4, query), clock)]]
      /\ UNCHANGED <<s4, db, uniqueKey, down, screens, clock, probe>>

(***************************************************************************)
(* getBinStatistics (the same computation in both variants).  A decimal    *)
(* number with two fraction digits is [hundredths |-> h], h its value      *)
(* times 100.  The quotient of the totals is the exact one: the totals of  *)
(* the model never put it on a rounding tie, where the digit toFixed picks *)
(* would depend on the binary representation of the quotient.              *)
(***************************************************************************)
StatsTop == 1000

Decimal(h) == [hundredths |-> h]

Abs(n) == IF n < 0 THEN 0 - n ELSE n

\* allBins.slice(lo - 1, hi).reduce((sum, b) => sum + (b[k] || 0), 0); the sum
\* of integers is taken by halves, which adds the same terms
RECURSIVE SumRange(_, _, _, _)
SumRange(allBins, k, lo, hi) ==
  IF lo > hi THEN 0
  ELSE IF lo = hi THEN (IF Has(allBins[lo], k) THEN allBins[lo][k] ELSE 0)
  ELSE SumRange(allBins, k, lo, (lo + hi) \div 2)
       + SumRange(allBins, k, ((lo + hi) \div 2) + 1, hi)

\* allBins.reduce((sum, b) => sum + (b[k] || 0), 0)
SumOf(allBins, k) == SumRange(allBins, k, 1, Len(allBins))

\* allBins.filter(b => b.status === 'active').length
ActiveCount(allBins) ==
  Cardinality({i \in 1..Len(allBins) :
                 Has(allBins[i], "status") /\ allBins[i].status = "active"})

\* the number of hundredths nearest to num / den * 100, the larger on a tie
RoundedHundredths(num, den) == (2 * num * 10000 + den) \div (2 * den)

\* toFixed(2) that cuts the further digits off instead of rounding
toFixed2_truncating(num, den) ==
  LET h == (num * 10000) \div den
  IN  (IF h < 0 THEN <<"-">> ELSE <<>>)
      \o NatToString(Abs(h) \div 100) \o <<".">>
      \o <<Digits[((Abs(h) % 100) \div 10) + 1], Digits[(Abs(h) % 10) + 1]>>

\* (num / den * 100).toFixed(2), den > 0
toFixed2(num, den) ==
  LET h == RoundedHundredths(num, den)
  IN  (IF h < 0 THEN <<"-">> ELSE <<>>)
      \o NatToString(Abs(h) \div 100) \o <<".">>
      \o <<Digits[((Abs(h) % 100) \div 10) + 1], Digits[(Abs(h) % 10) + 1]>>

\* parseFloat of a decimal literal with at most two fraction digits
parseFloat(str) ==
  LET neg   == str # <<>> /\ Head(str) = "-"
      body  == IF neg THEN Tail(str) ELSE str
      dots  == {i \in 1..Len(body) : body[i] = "."}
      dot   == IF dots = {} THEN Len(body) + 1
               ELSE CHOOSE i \in dots : \A j \in dots : i <= j
      whole == DigitsPrefix(SubSeq(body, 1, dot - 1), 0)
      frac  == SubSeq(body, dot + 1, Len(body))
      cents == (IF Len(frac) >= 1 /\ IsDigit(frac[1]) THEN 10 * DigitVal(frac[1]) ELSE 0)
               + (IF Len(frac) >= 2 /\ IsDigit(frac[1]) /\ IsDigit(frac[2])
                  THEN DigitVal(frac[2]) ELSE 0)
      h     == whole * 100 + cents
  IN  Decimal(IF neg THEN 0 - h ELSE h)

NaN == [nan |-> TRUE]

\* the percentage computed without the guard on the divisor
utilizationPercentage_unguarded(totalStock, totalCapacity) ==
  IF totalCapacity = 0 THEN NaN
  ELSE IF totalCapacity < 0
       THEN parseFloat(toFixed2(0 - totalStock, 0 - totalCapacity))
  ELSE parseFloat(toFixed2(totalStock, totalCapacity))

\* parseFloat(totalCapacity > 0 ? (totalStock / totalCapacity * 100).toFixed(2) : 0)
utilizationPercentage(totalStock, totalCapacity) ==
  IF totalCapacity > 0 THEN parseFloat(toFixed2(totalStock, totalCapacity))
  ELSE parseFloat(toString(0))

getBinStatistics(allBins) ==
  LET totalBins     == Len(allBins)
      activeBins    == ActiveCount(allBins)
      totalCapacity == SumOf(allBins, "capacity")
      totalStock    == SumOf(allBins, "currentStock")
  IN  [totalBins             |-> totalBins,
       activeBins            |-> activeBins,
       inactiveBins          |-> totalBins - activeBins,
       totalCapacity         |-> totalCapacity,
       totalStock            |-> totalStock,
       utilizationPercentage |-> utilizationPercentage(totalStock, totalCapacity)]

\* '/A_WarehouseStorageBin?$format=json&$top=1000'
StatsQuery == [top |-> toString(StatsTop)]

S4Statistics(r) ==
  /\ Free(r)
  /\ req' = [req EXCEPT ![r] = Arrived("s4", "STATS", <<>>, "query")]
  /\ UNCHANGED <<s4, db, uniqueKey, down, screens, clock, probe>>

S4StatisticsQuery(r) ==
  LET q == req[r]
  IN  /\ q.pc = "query" /\ q.impl = "s4" /\ q.op = "STATS"
      /\ req' = [req EXCEPT ![r] =
                   IF down THEN Caught(q, StatsFailMsg, SourceDown)
                   ELSE Done(q, 200, Ok)
                        @@ [result |->
                              getBinStatistics(Mapped(S4Results(s4, StatsQuery),
                                                      clock))]]
      /\ UNCHANGED <<s4, db, uniqueKey, down, screens, clock, probe>>

(***************************************************************************)
(* Local-database variant: the two `before` handlers, followed by the      *)
(* generic insert / update of the Bins projection on WarehouseBins.        *)
(***************************************************************************)
NoRow == <<>>

DbMatch(rows, id) == {i \in 1..Len(rows) : rows[i].ID = id}

\* a column read in a comparison: NULL compares as 0
Col(row, k) == IF Has(row, k) THEN row[k] ELSE 0

DbCreate(r, d) ==
  /\ Free(r)
  /\ Len(db) + Pending("db") < MaxBins
  /\ req' = [req EXCEPT ![r] = Arrived("db", "CREATE", d, "validate")]
  /\ UNCHANGED <<s4, db, uniqueKey, down, screens, clock, probe>>

\* binNumber : String(50) @mandatory
MandatoryMissing(d) == ~Has(d, "binNumber") \/ d.binNumber = <<>>

\* before CREATE: req.error(400, ...) rejects the request after the before phase
DbCreateValidate(r) ==
  LET q == req[r]
  IN  /\ q.pc = "validate" /\ q.impl = "db" /\ q.op = "CREATE"
      /\ req' = [req EXCEPT ![r] =
                   IF CreateRejects(q.data) THEN Done(q, 400, StockMsg)
                   ELSE IF MandatoryMissing(q.data) THEN Done(q, 400, MandatoryMsg)
                   ELSE [q EXCEPT !.pc = "write"]]
      /\ UNCHANGED <<s4, db, uniqueKey, down, screens, clock, probe>>

\* the row the generic INSERT stores: generated key, default status, timestamps
NewRow(d, id, now) ==
  d @@ [ID |-> id, status |-> "active", createdAt |-> now, lastUpdated |-> now]

DbCreateWrite(r) ==
  LET q == req[r]
  IN  /\ q.pc = "write" /\ q.impl = "db" /\ q.op = "CREATE"
      /\ db' = Append(db, NewRow(q.data, Len(db) + 1, clock))
      /\ req' = [req EXCEPT ![r] = Done([q EXCEPT !.writes = @ + 1], 200, Ok)]
      /\ UNCHANGED <<s4, uniqueKey, down, screens, clock, probe>>

DbUpdate(r, d) ==
  /\ Free(r)
  /\ Has(d, "ID")
  /\ req' = [req EXCEPT ![r] = Arrived("db", "UPDATE", d, "read")]
  /\ UNCHANGED <<s4, db, uniqueKey, down, screens, clock, probe>>

\* const bin = await SELECT.one.from(Bins).where({ ID: req.data.ID })
DbUpdateRead(r) ==
  LET q == req[r]
  IN  /\ q.pc = "read" /\ q.impl = "db" /\ q.op = "UPDATE"
      /\ req' = [req EXCEPT ![r] =
                   [pc |-> "validate", impl |-> q.impl, op |-> q.op,
                    data |-> q.data, writes |-> q.writes,
                    cur |-> IF DbMatch(db, q.data.ID) = {} THEN NoRow
                            ELSE db[CHOOSE i \in DbMatch(db, q.data.ID) : TRUE]]]
      /\ UNCHANGED <<s4, db, uniqueKey, down, screens, clock, probe>>

\* bin.capacity / bin.currentStock is read only for a field the request omits
DbUpdateThrows(d, bin) ==
  bin = NoRow /\ (~Has(d, "capacity") \/ ~Has(d, "currentStock"))

DbUpdateRejects(d, bin) ==
  LET capacity     == IF Has(d, "capacity") THEN d.capacity ELSE Col(bin, "capacity")
      currentStock == IF Has(d, "currentStock") THEN d.currentStock
                      ELSE Col(bin, "currentStock")
  IN  currentStock > capacity

\* before UPDATE
DbUpdateValidate(r) ==
  LET q == req[r]
  IN  /\ q.pc = "validate" /\ q.impl = "db" /\ q.op = "UPDATE"
      /\ req' = [req EXCEPT ![r] =
                   IF DbUpdateThrows(q.data, q.cur) THEN Done(q, 500, TypeErrorMsg)
                   ELSE IF DbUpdateRejects(q.data, q.cur) THEN Done(q, 400, StockMsg)
                   ELSE [q EXCEPT !.pc = "write"]]
      /\ UNCHANGED <<s4, db, uniqueKey, down, screens, clock, probe>>

\* the generic UPDATE sets the columns the request supplies
DbUpdateWrite(r) ==
  LET q      == req[r]
      issued == [q EXCEPT !.writes = @ + 1]
  IN  /\ q.pc = "write" /\ q.impl = "db" /\ q.op = "UPDATE"
      /\ IF DbMatch(db, q.data.ID) = {}
         THEN /\ req' = [req EXCEPT ![r] = Done(issued, 404, NotFoundMsg)]
              /\ db' = db
         ELSE LET i == CHOOSE j \in DbMatch(db, q.data.ID) : TRUE
              IN  /\ db' = [db EXCEPT ![i] = [lastUpdated |-> clock] @@ q.data @@ db[i]]
                  /\ req' = [req EXCEPT ![r] = Done(issued, 200, Ok)]
      /\ UNCHANGED <<s4, uniqueKey, down, screens, clock, probe>>

DbStatistics(r) ==
  /\ Free(r)
  /\ req' = [req EXCEPT ![r] = Arrived("db", "STATS", <<>>, "query")]
  /\ UNCHANGED <<s4, db, uniqueKey, down, screens, clock, probe>>

\* const allBins = await SELECT.from(Bins)
DbStatisticsQuery(r) ==
  LET q == req[r]
  IN  /\ q.pc = "query" /\ q.impl = "db" /\ q.op = "STATS"
      /\ req' = [req EXCEPT ![r] = Done(q, 200, Ok) @@ [result |-> getBinStatistics(db)]]
      /\ UNCHANGED <<s4, db, uniqueKey, down, screens, clock, probe>>

(***************************************************************************)
(* The field mapper applied to a canonical bin (probe), one mapping per    *)
(* step: toSource, then toCanonical.                                       *)
(***************************************************************************)
NoProbe == [stage |-> "none"]

ToSource ==
  /\ probe.stage = "bin"
  /\ probe' = [stage |-> "s4", bin |-> probe.bin, rec |-> mapBinToS4(probe.bin)]
  /\ UNCHANGED <<s4, db, uniqueKey, down, screens, req, clock>>

ToCanonical ==
  /\ probe.stage = "s4"
  /\ probe' = [stage |-> "back", bin |-> probe.bin, rec |-> probe.rec,
               back |-> mapS4ToBin(probe.rec, clock)]
  /\ UNCHANGED <<s4, db, uniqueKey, down, screens, req, clock>>

(***************************************************************************)
(* getByBarcode: a list with a barcode-equality filter, collapsed to a     *)
(* single result; NotFound when nothing matches.                           *)
(***************************************************************************)
NotFound == [found |-> FALSE]

getByBarcode(store, barcode, now) ==
  LET bins == READ(store, now)
      hits == {i \in 1..Len(bins) : bins[i].barcode = barcode}
  IN  IF hits = {} THEN NotFound
      ELSE [found |-> TRUE,
            bin |-> bins[CHOOSE i \in hits : \A j \in hits : i <= j]]

(***************************************************************************)
(* Client: the create form (CreateBinScreen).  createForm holds the state  *)
(* of the component (loading, formData, errors), the POST requests that    *)
(* have been sent and not yet answered, and the alert it shows.  A handler *)
(* runs to its first await in one step, and the component is rendered      *)
(* again before the next event is handled.  An alert is modal: the         *)
(* controls of the screen take no touch until its button is pressed.       *)
(***************************************************************************)
EmptyFormData ==
  [bin_number |-> <<>>, location |-> <<>>, capacity |-> <<>>,
   current_stock |-> <<"0">>, status |-> "active", barcode |-> <<>>]

CreateFormInit ==
  [loading |-> FALSE, formData |-> EmptyFormData, errors |-> {},
   inFlight |-> <<>>, alert |-> "none"]

\* text.replace(/[^0-9]/g, '')
DigitsOnly(text) == SelectSeq(text, IsDigit)

\* parseInt(text || '0')
IntOr0(text) == IF text = <<>> THEN 0 ELSE parseInt(text)

\* onChangeText of the input of a field: the text is stored (digits only for
\* the two quantities) and the error of the field is cleared
FormChangeText(field, text) ==
  /\ createForm.alert = "none"
  /\ createForm' =
       [createForm EXCEPT
          !.formData[field] = IF field \in {"capacity", "current_stock"}
                              THEN DigitsOnly(text) ELSE text,
          !.errors = @ \ {field}]
  /\ UNCHANGED <<service, scanScreen, detailScreen>>

\* onValueChange of the status switch
FormSwitchStatus ==
  /\ createForm.alert = "none"
  /\ createForm' =
       [createForm EXCEPT
          !.formData.status = IF @ = "active" THEN "inactive" ELSE "active"]
  /\ UNCHANGED <<service, scanScreen, detailScreen>>

\* validateForm without the comparison of stock and capacity
validateForm_noStockCheck(formData) ==
  (IF trim(formData.bin_number) = <<>> THEN {"bin_number"} ELSE {})
  \cup (IF trim(formData.location) = <<>> THEN {"location"} ELSE {})
  \cup (IF formData.capacity = <<>> \/ parseInt(formData.capacity) <= 0
        THEN {"capacity"} ELSE {})
  \cup (IF IntOr0(formData.current_stock) < 0 THEN {"current_stock"} ELSE {})

\* validateForm: the fields that get an error message
validateForm(formData) ==
  (IF trim(formData.bin_number) = <<>> THEN {"bin_number"} ELSE {})
  \cup (IF trim(formData.location) = <<>> THEN {"location"} ELSE {})
  \cup (IF formData.capacity = <<>> \/ parseInt(formData.capacity) <= 0
        THEN {"capacity"} ELSE {})
  \cup (IF \/ IntOr0(formData.current_stock) < 0
           \/ IntOr0(formData.current_stock) > IntOr0(formData.capacity)
        THEN {"current_stock"} ELSE {})

\* the body of the POST request
CreateBody(formData) ==
  [formData EXCEPT !.capacity = parseInt(formData.capacity),
                   !.current_stock = IntOr0(formData.current_stock)]

\* the Create Bin button (disabled while loading): handleSubmit up to the fetch
handleSubmit ==
  /\ createForm.alert = "none"
  /\ ~createForm.loading
  /\ LET newErrors == validateForm(createForm.formData)
     IN  createForm' =
           IF newErrors # {} THEN [createForm EXCEPT !.errors = newErrors]
           ELSE [createForm EXCEPT
                   !.errors = newErrors,
                   !.loading = TRUE,
                   !.inFlight = Append(@, CreateBody(createForm.formData))]
  /\ UNCHANGED <<service, scanScreen, detailScreen>>

\* the outcomes of a fetch: a response that is ok, a response that is not,
\* and a rejected promise
FetchOutcomes == {"ok", "not ok", "failed"}

\* handleSubmit after the fetch: the alert, then finally setLoading(false)
SubmitSettles ==
  /\ createForm.inFlight # <<>>
  /\ \E outcome \in FetchOutcomes :
       createForm' =
         [createForm EXCEPT
            !.inFlight = Tail(@),
            !.alert = IF outcome = "ok" THEN "Success" ELSE "Error",
            !.loading = FALSE]
  /\ UNCHANGED <<service, scanScreen, detailScreen>>

\* the button of the alert: OK of Success empties the form and leaves for the
\* list of bins
FormAlertPress ==
  /\ createForm.alert # "none"
  /\ createForm' =
       [createForm EXCEPT
          !.alert = "none",
          !.formData = IF createForm.alert = "Success" THEN EmptyFormData ELSE @]
  /\ UNCHANGED <<service, scanScreen, detailScreen>>

\* the Reset button (disabled while loading)
handleReset ==
  /\ createForm.alert = "none"
  /\ ~createForm.loading
  /\ createForm' = [createForm EXCEPT !.formData = EmptyFormData, !.errors = {}]
  /\ UNCHANGED <<service, scanScreen, detailScreen>>


(***************************************************************************)
(* Client: the scan screen (ScanScreen).  scanScreen holds the state of    *)
(* the component, the barcode lookups that have been sent and not yet      *)
(* answered, and the alerts that are shown, the oldest first.              *)
(***************************************************************************)
ScanInit ==
  [hasPermission |-> "null", scanned |-> FALSE, loading |-> FALSE,
   torchOn |-> FALSE, inFlight |-> <<>>, alerts |-> <<>>]

\* requestCameraPermission, on mount and by the Request Permission button
PermissionSettles ==
  /\ scanScreen.hasPermission \in {"null", "denied"}
  /\ \E status \in {"granted", "denied"} :
       scanScreen' = [scanScreen EXCEPT !.hasPermission = status]
  /\ UNCHANGED <<service, createForm, detailScreen>>

\* a scanner whose callback is never taken away
ScannerAttached_always(screen) == screen.hasPermission = "granted"

\* onBarCodeScanned={scanned ? undefined : handleBarCodeScanned}
ScannerAttached(screen) == screen.hasPermission = "granted" /\ ~screen.scanned

\* handleBarCodeScanned up to the fetch
handleBarCodeScanned(data) ==
  /\ ScannerAttached(scanScreen)
  /\ scanScreen' = [scanScreen EXCEPT !.scanned = TRUE, !.loading = TRUE,
                                      !.inFlight = Append(@, data)]
  /\ UNCHANGED <<service, createForm, detailScreen>>

\* the title of the alert that answers the lookup of a barcode
LookupAlert(data) ==
  IF down THEN "Error"
  ELSE IF getByBarcode(s4, data, clock).found THEN "Bin Found!"
  ELSE "Not Found"

\* handleBarCodeScanned after the fetch: the alert, then finally
\* setLoading(false)
LookupSettles ==
  /\ scanScreen.inFlight # <<>>
  /\ scanScreen' = [scanScreen EXCEPT
                      !.inFlight = Tail(@),
                      !.alerts = Append(@, LookupAlert(Head(scanScreen.inFlight))),
                      !.loading = FALSE]
  /\ UNCHANGED <<service, createForm, detailScreen>>

\* Scan Again of Not Found and of Bin Found!, Try Again of Error
AlertScanAgain ==
  /\ scanScreen.alerts # <<>>
  /\ scanScreen' = [scanScreen EXCEPT !.alerts = Tail(@), !.scanned = FALSE,
                                      !.loading = FALSE]
  /\ UNCHANGED <<service, createForm, detailScreen>>

\* View Details of Bin Found!: the detail screen is pushed over the scan screen
AlertViewDetails ==
  /\ scanScreen.alerts # <<>> /\ Head(scanScreen.alerts) = "Bin Found!"
  /\ scanScreen' = [scanScreen EXCEPT !.alerts = Tail(@)]
  /\ UNCHANGED <<service, createForm, detailScreen>>

\* a Scan Again control that is disabled when it should be enabled
ScanAgainShown_whileLoading(screen) ==
  screen.hasPermission = "granted" /\ screen.scanned /\ screen.loading

\* {scanned && <TouchableOpacity ... disabled={loading}>}
ScanAgainShown(screen) ==
  screen.hasPermission = "granted" /\ screen.scanned /\ ~screen.loading

\* the Scan Again control of the screen
ScanAgain ==
  /\ scanScreen.alerts = <<>>
  /\ ScanAgainShown(scanScreen)
  /\ scanScreen' = [scanScreen EXCEPT !.scanned = FALSE, !.loading = FALSE]
  /\ UNCHANGED <<service, createForm, detailScreen>>

\* the flash control (disabled={scanned || loading})
ToggleTorch ==
  /\ scanScreen.alerts = <<>>
  /\ scanScreen.hasPermission = "granted"
  /\ ~(scanScreen.scanned \/ scanScreen.loading)
  /\ scanScreen' = [scanScreen EXCEPT !.torchOn = ~@]
  /\ UNCHANGED <<service, createForm, detailScreen>>

(***************************************************************************)
(* Client: the bin detail screen (BinDetailScreen).  detailScreen holds    *)
(* the state of the component, the PUT requests that have been sent and    *)
(* not yet answered, and the alerts that are shown.                        *)
(***************************************************************************)
\* bin === null
NoBin == <<>>

DetailInit ==
  [loading |-> TRUE, saving |-> FALSE, isEditing |-> FALSE, bin |-> NoBin,
   formData |-> [location |-> <<>>, capacity |-> <<>>, current_stock |-> <<>>,
                 status |-> "active", barcode |-> <<>>],
   errors |-> {}, inFlight |-> <<>>, alerts |-> <<>>]

\* the form fields filled from a bin
FormOf(bin) ==
  [location |-> bin.location, capacity |-> toString(bin.capacity),
   current_stock |-> toString(bin.current_stock), status |-> bin.status,
   barcode |-> bin.barcode]

\* fetchBin after the fetch, with the bin the response carries if it is ok
BinFetched(outcome, data) ==
  /\ detailScreen.loading
  /\ detailScreen' =
       IF outcome = "ok"
       THEN [detailScreen EXCEPT !.bin = data, !.formData = FormOf(data),
                                 !.loading = FALSE]
       ELSE [detailScreen EXCEPT !.alerts = Append(@, "Error"), !.loading = FALSE]
  /\ UNCHANGED <<service, createForm, scanScreen>>

\* the detail view and the edit form are rendered once a bin is loaded
DetailShown ==
  /\ ~detailScreen.loading /\ Has(detailScreen.bin, "id")
  /\ detailScreen.alerts = <<>>

\* onChangeText of an input of the edit form
DetailChangeText(field, text) ==
  /\ DetailShown /\ detailScreen.isEditing
  /\ detailScreen' =
       [detailScreen EXCEPT
          !.formData[field] = IF field \in {"capacity", "current_stock"}
                              THEN DigitsOnly(text) ELSE text,
          !.errors = @ \ {field}]
  /\ UNCHANGED <<service, createForm, scanScreen>>

\* onValueChange of the status switch of the edit form
DetailSwitchStatus ==
  /\ DetailShown /\ detailScreen.isEditing
  /\ detailScreen' =
       [detailScreen EXCEPT
          !.formData.status = IF @ = "active" THEN "inactive" ELSE "active"]
  /\ UNCHANGED <<service, createForm, scanScreen>>

\* headerRight: Edit / Cancel (disabled while saving)
HeaderToggle ==
  /\ DetailShown /\ ~detailScreen.saving
  /\ detailScreen' = [detailScreen EXCEPT !.isEditing = ~@]
  /\ UNCHANGED <<service, createForm, scanScreen>>

\* the Cancel button of the edit form (disabled while saving)
handleCancel ==
  /\ DetailShown /\ detailScreen.isEditing /\ ~detailScreen.saving
  /\ detailScreen' = [detailScreen EXCEPT !.formData = FormOf(detailScreen.bin),
                                          !.isEditing = FALSE, !.errors = {}]
  /\ UNCHANGED <<service, createForm, scanScreen>>

\* validateForm of the detail screen
validateDetailForm(formData) ==
  (IF trim(formData.location) = <<>> THEN {"location"} ELSE {})
  \cup (IF formData.capacity = <<>> \/ parseInt(formData.capacity) <= 0
        THEN {"capacity"} ELSE {})
  \cup (IF \/ IntOr0(formData.current_stock) < 0
           \/ IntOr0(formData.current_stock) > IntOr0(formData.capacity)
        THEN {"current_stock"} ELSE {})

\* the body of the PUT request; parseInt('') is NaN, which JSON.stringify
\* writes as null: the property then carries no number
SaveBody(formData) ==
  (IF formData.current_stock = <<>> THEN <<>>
   ELSE [current_stock |-> parseInt(formData.current_stock)])
  @@
  [location |-> formData.location, capacity |-> parseInt(formData.capacity),
   status |-> formData.status, barcode |-> formData.barcode]

\* the Save button of the edit form (disabled while saving): handleSave up
\* to the fetch
handleSave ==
  /\ DetailShown /\ detailScreen.isEditing /\ ~detailScreen.saving
  /\ LET newErrors == validateDetailForm(detailScreen.formData)
     IN  detailScreen' =
           IF newErrors # {} THEN [detailScreen EXCEPT !.errors = newErrors]
           ELSE [detailScreen EXCEPT
                   !.errors = newErrors,
                   !.saving = TRUE,
                   !.inFlight = Append(@, SaveBody(detailScreen.formData))]
  /\ UNCHANGED <<service, createForm, scanScreen>>

\* the bin an accepted PUT answers with: the fields of the body replace those
\* of the bin, a field that carries no value is left as it was
UpdatedBin(bin, body) ==
  [bin EXCEPT !.location = body.location, !.capacity = body.capacity,
              !.current_stock = IF Has(body, "current_stock")
                                THEN body.current_stock ELSE @,
              !.status = body.status, !.barcode = body.barcode]

\* handleSave after the fetch: setBin and setIsEditing(false) or the Error
\* alert, then finally setSaving(false)
SaveSettles ==
  /\ detailScreen.inFlight # <<>>
  /\ \E outcome \in FetchOutcomes :
       detailScreen' =
         IF outcome = "ok"
         THEN [detailScreen EXCEPT
                 !.inFlight = Tail(@),
                 !.bin = UpdatedBin(@, Head(detailScreen.inFlight)),
                 !.isEditing = FALSE,
                 !.alerts = Append(@, "Success"),
                 !.saving = FALSE]
         ELSE [detailScreen EXCEPT !.inFlight = Tail(@),
                                   !.alerts = Append(@, "Error"),
                                   !.saving = FALSE]
  /\ UNCHANGED <<service, createForm, scanScreen>>

\* the button of an alert of the detail screen
DetailAlertPress ==
  /\ detailScreen.alerts # <<>>
  /\ detailScreen' = [detailScreen EXCEPT !.alerts = Tail(@)]
  /\ UNCHANGED <<service, createForm, scanScreen>>

\* the three screens as they are mounted
ScreensInit ==
  /\ createForm = CreateFormInit
  /\ scanScreen = ScanInit
  /\ detailScreen = DetailInit
(***************************************************************************)
(* Inputs.                                                                 *)
(***************************************************************************)
B1 == <<"B", "1">>
B2 == <<"B", "2">>
X1 == <<"X", "1">>
Empty == <<>>
LocPlain == <<"A">>
LocTwo == <<"A", " ", "-", " ", "B">>
LocHyphen == <<"A", "-", "B", " ", "-", " ", "C">>

Qty == 0..MaxQty

\* objects with property k drawn from S / with k drawn from S or undefined
Fld(k, S) == {k :> v : v \in S}
Opt(k, S) == {<<>>} \cup Fld(k, S)
Join(A, B) == {a @@ b : a \in A, b \in B}

\* a record the S/4 system holds before the service is used: its warehouse
\* number contains a hyphen
SeedBin ==
  [StorageBin |-> B1, Warehouse |-> <<"A", "-", "B">>, StorageType |-> <<"C">>,
   MaximumStorageCapacity |-> <<"1">>, CurrentStock |-> <<"0">>,
   BlockingIndicator |-> <<>>]

\* a record the S/4 system holds without a storage type
SeedNoType ==
  [StorageBin |-> B1, Warehouse |-> <<"A">>,
   MaximumStorageCapacity |-> <<"1">>, CurrentStock |-> <<"0">>,
   BlockingIndicator |-> X]

Init ==
  /\ s4 \in {<<>>, <<SeedBin>>, <<SeedNoType>>}
  /\ db = <<>>
  /\ uniqueKey \in BOOLEAN
  /\ down = FALSE
  /\ req = [r \in ReqIds |-> Idle]
  /\ clock = 0
  /\ probe = NoProbe
  /\ ScreensInit

\* the steps of the S/4HANA handlers for the request in slot r
S4Step(r) ==
  \/ S4CreateValidate(r)
  \/ S4CreateWrite(r)
  \/ S4UpdateRead(r)
  \/ S4UpdateValidate(r)
  \/ S4UpdateWrite(r)
  \/ S4UpdateReread(r)
  \/ S4DeleteWrite(r)

\* the steps of the local-database handlers for the request in slot r
DbStep(r) ==
  \/ DbCreateValidate(r)
  \/ DbCreateWrite(r)
  \/ DbUpdateRead(r)
  \/ DbUpdateValidate(r)
  \/ DbUpdateWrite(r)

(***************************************************************************)
(* SpecStock: one request at a time against the S/4HANA variant; the       *)
(* requests differ in capacity and currentStock, each supplied or not.     *)
(* Creates that pass validation are taken while the store holds fewer than *)
(* MaxFieldBins records; rejected creates are taken at every store size.   *)
(***************************************************************************)
StockFields == Join(Opt("capacity", Qty), Opt("currentStock", Qty))

StockCreates ==
  Join([binNumber : {B1}, location : {LocTwo}, status : {"active"}], StockFields)

StockUpdates == Join(Fld("ID", {B1, B2}), StockFields)

NextStock ==
  \/ \E d \in StockCreates :
       (Len(s4) < MaxFieldBins \/ CreateRejects(d)) /\ S4Create(1, d)
  \/ \E d \in StockUpdates : S4Update(1, d)
  \/ S4Delete(1, B1)
  \/ S4Step(1)

SpecStock == Init /\ [][NextStock]_vars

(***************************************************************************)
(* SpecKeys: one request at a time against the S/4HANA variant; the        *)
(* requests differ in the bin number they create, address or assign.       *)
(***************************************************************************)
KeyCreates ==
  [binNumber : {B1, B2}, location : {LocTwo}, capacity : {MaxQty},
   currentStock : {0}, status : {"active"}]

KeyUpdates == Join(Fld("ID", {B1, B2}), Opt("binNumber", {B1, B2}))

NextKeys ==
  \/ \E d \in KeyCreates : S4Create(1, d)
  \/ \E d \in KeyUpdates : S4Update(1, d)
  \/ \E id \in {B1, B2} : S4Delete(1, id)
  \/ S4Step(1)

SpecKeys == Init /\ [][NextKeys]_vars

(***************************************************************************)
(* SpecRace: concurrent creates against the S/4HANA variant.               *)
(***************************************************************************)
NextRace ==
  \E r \in ReqIds :
    \/ \E d \in KeyCreates : S4Create(r, d)
    \/ S4CreateValidate(r)
    \/ S4CreateWrite(r)

SpecRace == Init /\ [][NextRace]_vars

(***************************************************************************)
(* SpecRequired: one create at a time against the S/4HANA variant; each of *)
(* binNumber, location and capacity is supplied, empty or absent.          *)
(***************************************************************************)
RequiredCreates ==
  Join(Opt("binNumber", {B1, Empty}),
       Join(Opt("location", {LocPlain, Empty}),
            Join(Opt("capacity", {MaxQty}),
                 [currentStock : {0, MaxQty + 1}, status : {"active"}])))

NextRequired ==
  \/ \E d \in RequiredCreates : S4Create(1, d)
  \/ S4CreateValidate(1)
  \/ S4CreateWrite(1)
  \/ \E id \in {B1, Empty} : S4Delete(1, id)
  \/ S4DeleteWrite(1)

SpecRequired == Init /\ [][NextRequired]_vars

(***************************************************************************)
(* SpecPartial: creates and partial updates, one at a time, against the    *)
(* S/4HANA variant holding at most MaxFieldBins bins.                      *)
(***************************************************************************)
PartialCreates ==
  Join([binNumber : {B1}, location : {LocPlain, LocHyphen}, capacity : {MaxQty},
        currentStock : {0}],
       Join(Opt("status", {"active"}), Opt("barcode", {B1, X1})))

PartialUpdates ==
  Join(Fld("ID", {B1}),
       Join(Opt("binNumber", {B2}),
            Join(Opt("location", {LocTwo}),
                 Join(Opt("capacity", {MaxQty}),
                      Join(Opt("currentStock", {MaxQty}),
                           Join(Opt("status", {"inactive"}), Opt("barcode", {X1})))))))

NextPartial ==
  \/ \E d \in PartialCreates : Len(s4) < MaxFieldBins /\ S4Create(1, d)
  \/ \E d \in PartialUpdates : S4Update(1, d)
  \/ S4Delete(1, B1)
  \/ S4Step(1)

SpecPartial == Init /\ [][NextPartial]_vars

(***************************************************************************)
(* SpecDb: concurrent creates and single-field updates against the         *)
(* local-database variant.                                                 *)
(***************************************************************************)
DbCreates ==
  [binNumber : {B1}, location : {LocPlain}, capacity : {MaxQty}, currentStock : {0}]

DbUpdates ==
  Join(Fld("ID", {1}),
       Fld("capacity", {0}) \cup Fld("currentStock", {MaxQty}))

NextDb ==
  \E r \in ReqIds :
    \/ \E d \in DbCreates : DbCreate(r, d)
    \/ \E d \in DbUpdates : DbUpdate(r, d)
    \/ DbStep(r)

SpecDb == Init /\ [][NextDb]_vars

(***************************************************************************)
(* SpecMap: the field mapper on its own.                                   *)
(***************************************************************************)
MapQty == {0, MaxQty, 10 * MaxQty + 2, 1000}

CanonicalBins ==
  [binNumber : {B1, B2}, location : {LocPlain, LocTwo, LocHyphen},
   capacity : MapQty, currentStock : MapQty, status : {"active", "inactive"},
   barcode : {B1, X1}]

InitMap ==
  /\ s4 = <<>>
  /\ db = <<>>
  /\ uniqueKey = FALSE
  /\ down = FALSE
  /\ req = [r \in ReqIds |-> Idle]
  /\ clock = 0
  /\ probe \in {[stage |-> "bin", bin |-> b] : b \in CanonicalBins}
  /\ ScreensInit

NextMap == ToSource \/ ToCanonical \/ Tick

SpecMap == InitMap /\ [][NextMap]_vars

(***************************************************************************)
(* SpecStats: statistics over the bins of either variant.  The store is    *)
(* empty, holds the four sample bins, holds one record more than a         *)
(* statistics read fetches, or holds what creates put there; a deployment  *)
(* runs one variant, so only one of the two stores is in use.              *)
(***************************************************************************)
StatsQty == (0 - 1)..MaxQty

StatsCreates ==
  [binNumber : {B1}, location : {LocTwo}, capacity : StatsQty,
   currentStock : StatsQty, status : {"active"}]

SampleRecord(key, capacity, stock, flag) ==
  [StorageBin |-> key, Warehouse |-> <<"A">>, StorageType |-> <<"R">>,
   MaximumStorageCapacity |-> toString(capacity), CurrentStock |-> toString(stock),
   BlockingIndicator |-> flag]

\* the four sample bins as S/4 records
SampleS4 ==
  <<SampleRecord(<<"A", "1">>, 1000, 750, <<>>),
    SampleRecord(<<"A", "2">>, 800, 300, <<>>),
    SampleRecord(<<"B", "1">>, 1200, 1100, <<>>),
    SampleRecord(<<"C", "1">>, 500, 0, X)>>

SampleRow(id, key, capacity, stock, status) ==
  [ID |-> id, binNumber |-> key, location |-> <<"A">>, capacity |-> capacity,
   currentStock |-> stock, status |-> status, barcode |-> toString(id),
   createdAt |-> 0, lastUpdated |-> 0]

\* db/data/binmaster-WarehouseBins.csv
SampleDb ==
  <<SampleRow(1, <<"A", "1">>, 1000, 750, "active"),
    SampleRow(2, <<"A", "2">>, 800, 300, "active"),
    SampleRow(3, <<"B", "1">>, 1200, 1100, "active"),
    SampleRow(4, <<"C", "1">>, 500, 0, "inactive")>>

\* an entity set with one record more than $top=1000 fetches
LargeS4 ==
  [i \in 1..(StatsTop + 1) |->
     SampleRecord(<<"B">> \o NatToString(i), 3, 1, IF i % 2 = 0 THEN X ELSE <<>>)]

\* a table with one row more than the statistics of the S/4HANA variant fetch
LargeDb ==
  [i \in 1..(StatsTop + 1) |->
     SampleRow(i, <<"B">> \o NatToString(i), 3, 1,
               IF i % 2 = 0 THEN "inactive" ELSE "active")]

InitStats ==
  /\ s4 \in {<<>>, SampleS4, LargeS4}
  /\ db \in {<<>>, SampleDb, LargeDb}
  /\ s4 = <<>> \/ db = <<>>
  /\ uniqueKey \in BOOLEAN
  /\ down = FALSE
  /\ req = [r \in ReqIds |-> Idle]
  /\ clock = 0
  /\ probe = NoProbe
  /\ ScreensInit

NextStats ==
  \/ \E d \in StatsCreates : db = <<>> /\ S4Create(1, d)
  \/ S4CreateValidate(1)
  \/ S4CreateWrite(1)
  \/ S4Statistics(1)
  \/ S4StatisticsQuery(1)
  \/ \E d \in StatsCreates : s4 = <<>> /\ DbCreate(1, d)
  \/ DbCreateValidate(1)
  \/ DbCreateWrite(1)
  \/ DbStatistics(1)
  \/ DbStatisticsQuery(1)

SpecStats == InitStats /\ [][NextStats]_vars

(***************************************************************************)
(* SpecList: reads, one at a time, against the S/4HANA variant.  A SELECT  *)
(* is the CQN the service framework hands the handler for an OData request *)
(* ($top and $skip in limit.rows / limit.offset, $filter as the token      *)
(* array where, a key in from.ref[0].where), or carries a value in the     *)
(* plain form the handler reads (a number in limit, $skip in               *)
(* from.ref[0].where, status as a property of where).                      *)
(***************************************************************************)
ActiveText == <<"a", "c", "t", "i", "v", "e">>
InactiveText == <<"i", "n", "a", "c", "t", "i", "v", "e">>

Search(f, term) == <<[ref |-> f], [op |-> "like"], [val |-> term]>>

\* binNumber like term or location like term or barcode like term
SearchTokens(term) ==
  Search("binNumber", term) \o <<[op |-> "or"]>> \o Search("location", term)
  \o <<[op |-> "or"]>> \o Search("barcode", term)

\* status = s
StatusTokens(status) == <<[ref |-> "status"], [op |-> "="], [val |-> status]>>

\* ID = id
KeyTokens(id) == <<[ref |-> "ID"], [op |-> "="], [val |-> id]>>

ListTerms == {<<>>, <<"A">>, <<"B">>, <<"R">>}
ListStatuses == {ActiveText, InactiveText}
ListLimits == 0..MaxBins

ListWheres ==
  {<<>>}
  \cup {[where |-> [arr |-> SearchTokens(t)]] : t \in ListTerms}
  \cup {[where |-> [obj |-> [status |-> st]]] : st \in ListStatuses}
  \cup {[where |-> [arr |-> StatusTokens(st)]] : st \in ListStatuses}
  \cup {[where |-> [arr |-> <<[xpr |-> SearchTokens(t)], [op |-> "and"]>>
                            \o StatusTokens(st)]] :
          t \in ListTerms, st \in ListStatuses}

ListPages ==
  {<<>>}
  \cup {[limit |-> Num(n)] : n \in ListLimits}
  \cup {[limit |-> [rows |-> [val |-> n]]] : n \in ListLimits \ {0}}
  \cup {[limit |-> [rows |-> [val |-> n], offset |-> [val |-> 1]]] :
          n \in ListLimits \ {0}}

ListFroms ==
  {[from |-> [ref |-> <<[id |-> "Bins"]>>]],
   [from |-> [ref |-> <<[id |-> "Bins", where |-> [obj |-> ("$skip" :> Num(1))]]>>]]}

\* GET Bins?...
ListSelects == Join(ListFroms, Join(ListPages, ListWheres))

\* GET Bins('id')
KeySelects ==
  {[from |-> [ref |-> <<[id |-> "Bins", where |-> [arr |-> KeyTokens(id)]]>>],
    one |-> TRUE] : id \in {B1, B2, Empty}}

ListRecord(key, warehouse, type, flag) ==
  [StorageBin |-> key, Warehouse |-> warehouse, StorageType |-> type,
   MaximumStorageCapacity |-> <<"1">>, CurrentStock |-> <<"0">>,
   BlockingIndicator |-> flag]

ListStores ==
  {<<>>,
   <<ListRecord(B1, <<"A">>, <<"R">>, <<>>)>>,
   <<ListRecord(B1, <<"A">>, <<"R">>, <<>>), ListRecord(B2, <<"C">>, <<"A">>, X)>>,
   <<ListRecord(B2, <<"C">>, <<"A">>, X), ListRecord(B1, <<"A">>, <<"R">>, X),
     ListRecord(<<"C", "3">>, <<"C">>, <<"C">>, <<>>)>>}

InitList ==
  /\ s4 \in ListStores
  /\ db = <<>>
  /\ uniqueKey = TRUE
  /\ down = FALSE
  /\ req = [r \in ReqIds |-> Idle]
  /\ clock = 0
  /\ probe = NoProbe
  /\ ScreensInit

\* the search terms / statuses / page sizes / offsets / keys a SELECT asks for
\* (no element when it asks for none)
TermsAsked(SELECT) ==
  IF ~Has(SELECT, "where") \/ ~Has(SELECT.where, "arr") THEN {}
  ELSE LET w == SELECT.where.arr
       IN  IF Has(w[1], "xpr") THEN {w[1].xpr[3].val}
           ELSE IF w[1] = [ref |-> "binNumber"] THEN {w[3].val}
           ELSE {}

StatusesAsked(SELECT) ==
  IF ~Has(SELECT, "where") THEN {}
  ELSE IF Has(SELECT.where, "obj") THEN {SELECT.where.obj.status}
  ELSE LET w == SELECT.where.arr
       IN  {w[i + 2].val : i \in {j \in 1..Len(w) : w[j] = [ref |-> "status"]}}

LimitsAsked(SELECT) ==
  IF ~Has(SELECT, "limit") THEN {}
  ELSE IF Has(SELECT.limit, "num") THEN {SELECT.limit.num}
  ELSE {SELECT.limit.rows.val}

SkipsAsked(SELECT) ==
  (IF Has(SELECT, "limit") /\ Has(SELECT.limit, "offset")
   THEN {SELECT.limit.offset.val} ELSE {})
  \cup
  (IF Has(SELECT.from.ref[1], "where") /\ Has(SELECT.from.ref[1].where, "obj")
   THEN {SELECT.from.ref[1].where.obj["$skip"].num} ELSE {})

KeysAsked(SELECT) ==
  IF Has(SELECT.from.ref[1], "where") /\ Has(SELECT.from.ref[1].where, "arr")
  THEN {SELECT.from.ref[1].where.arr[3].val} ELSE {}

\* the same request without its search
WithoutSearch(SELECT) ==
  LET rest == [k \in DOMAIN SELECT \ {"where"} |-> SELECT[k]]
      w    == SELECT.where.arr
  IN  IF Has(w[1], "xpr") THEN rest @@ [where |-> [arr |-> SubSeq(w, 3, Len(w))]]
      ELSE rest

\* slot 1 takes any read; once a read whose search term is the empty string
\* is answered, slot 2 repeats it without the search and slot 1 rests
NextList ==
  \/ \E SELECT \in ListSelects \cup KeySelects :
       req[2].pc = "idle" /\ S4Read(1, SELECT)
  \/ /\ req[1].pc = "done" /\ req[2].pc = "idle"
     /\ TermsAsked(req[1].data) = {<<>>}
     /\ S4Read(2, WithoutSearch(req[1].data))
  \/ \E r \in {1, 2} : S4ReadQuery(r)

SpecList == InitList /\ [][NextList]_vars

(***************************************************************************)
(* SpecTime: a bin is created and updated through the S/4HANA variant      *)
(* while the list is read and time passes.  No bin is deleted, so a bin    *)
(* that is read is the one the create returned.                            *)
(***************************************************************************)
TimeCreates ==
  [binNumber : {B1}, location : {LocPlain, LocTwo}, capacity : {MaxQty},
   currentStock : {0}, status : {"active"}]

TimeUpdates == Join(Fld("ID", {B1}), Opt("currentStock", {MaxQty}))

\* GET Bins
PlainSelect == [from |-> [ref |-> <<[id |-> "Bins"]>>]]

InitTime ==
  /\ s4 = <<>>
  /\ db = <<>>
  /\ uniqueKey = TRUE
  /\ down = FALSE
  /\ req = [r \in ReqIds |-> Idle]
  /\ clock = 0
  /\ probe = NoProbe
  /\ ScreensInit

NextTime ==
  \/ \E d \in TimeCreates : S4Create(1, d)
  \/ \E d \in TimeUpdates : S4Update(1, d)
  \/ S4CreateValidate(1)
  \/ S4CreateWrite(1)
  \/ S4UpdateRead(1)
  \/ S4UpdateValidate(1)
  \/ S4UpdateWrite(1)
  \/ S4UpdateReread(1)
  \/ S4Read(2, PlainSelect)
  \/ S4ReadQuery(2)
  \/ Tick

SpecTime == InitTime /\ [][NextTime]_vars

(***************************************************************************)
(* SpecOutage: one request at a time against the S/4HANA variant while     *)
(* the S/4HANA system goes out of reach and comes back.                    *)
(***************************************************************************)
\* the destination cannot be resolved or the HTTP request fails, until it
\* works again
SourceFlips ==
  /\ down' = ~down
  /\ UNCHANGED <<s4, db, uniqueKey, screens, req, clock, probe>>

OutageUpdates ==
  Join(Fld("ID", {B1}), Join(Opt("capacity", {MaxQty}), Opt("status", {"inactive"})))

InitOutage ==
  /\ s4 \in {<<>>, <<SeedNoType>>}
  /\ db = <<>>
  /\ uniqueKey = TRUE
  /\ down \in BOOLEAN
  /\ req = [r \in ReqIds |-> Idle]
  /\ clock = 0
  /\ probe = NoProbe
  /\ ScreensInit

NextOutage ==
  \/ SourceFlips
  \/ \E d \in TimeCreates : S4Create(1, d)
  \/ \E d \in OutageUpdates : S4Update(1, d)
  \/ S4Delete(1, B1)
  \/ S4Step(1)
  \/ S4Read(1, PlainSelect)
  \/ S4ReadQuery(1)
  \/ S4Statistics(1)
  \/ S4StatisticsQuery(1)

SpecOutage == InitOutage /\ [][NextOutage]_vars

(***************************************************************************)
(* SpecTwoUpdates: two clients update the same bin of the S/4HANA variant  *)
(* concurrently; the first only ever sets the status, the second only the  *)
(* capacity.                                                               *)
(***************************************************************************)
StatusUpdate == [ID |-> B1, status |-> "inactive"]

CapacityUpdate == [ID |-> B1, capacity |-> MaxQty + 1]

InitTwoUpdates ==
  /\ s4 = <<ListRecord(B1, <<"A">>, <<"R">>, <<>>)>>
  /\ db = <<>>
  /\ uniqueKey = TRUE
  /\ down = FALSE
  /\ req = [r \in ReqIds |-> Idle]
  /\ clock = 0
  /\ probe = NoProbe
  /\ ScreensInit

NextTwoUpdates ==
  \/ S4Update(1, StatusUpdate)
  \/ S4Update(2, CapacityUpdate)
  \/ \E r \in {1, 2} :
       \/ S4UpdateRead(r)
       \/ S4UpdateValidate(r)
       \/ S4UpdateWrite(r)
       \/ S4UpdateReread(r)
  \/ Tick

SpecTwoUpdates == InitTwoUpdates /\ [][NextTwoUpdates]_vars

(***************************************************************************)
(* SpecForm: the create form on its own.  The user types into the fields,  *)
(* flips the status switch and presses the buttons in any order; every     *)
(* request that was sent is answered at some time, in one of the three     *)
(* ways a fetch can end.                                                   *)
(***************************************************************************)
NameTexts == {<<>>, <<" ">>, <<"A">>}

\* what the user may type into a quantity field: nothing, a number, a text
\* with a sign
QtyTexts == {<<>>, <<"-", "1">>} \cup {toString(n) : n \in 0..(MaxQty + 1)}

InitClient ==
  /\ s4 = <<>>
  /\ db = <<>>
  /\ uniqueKey = TRUE
  /\ down = FALSE
  /\ req = [r \in ReqIds |-> Idle]
  /\ clock = 0
  /\ probe = NoProbe
  /\ ScreensInit

NextForm ==
  \/ \E field \in {"bin_number", "location"}, text \in NameTexts :
       FormChangeText(field, text)
  \/ \E field \in {"capacity", "current_stock"}, text \in QtyTexts :
       FormChangeText(field, text)
  \/ FormSwitchStatus
  \/ handleSubmit
  \/ SubmitSettles
  \/ FormAlertPress
  \/ handleReset

SpecForm == InitClient /\ [][NextForm]_vars

(***************************************************************************)
(* SpecScan: the scan screen in front of the S/4HANA variant, which holds  *)
(* bins B1 and B2, one of them or none and is in reach or not.             *)
(***************************************************************************)
ScannedCodes == {B1, B2, X1}

InitScan ==
  /\ s4 \in ListStores
  /\ db = <<>>
  /\ uniqueKey = TRUE
  /\ down \in BOOLEAN
  /\ req = [r \in ReqIds |-> Idle]
  /\ clock = 0
  /\ probe = NoProbe
  /\ ScreensInit

NextScan ==
  \/ PermissionSettles
  \/ \E data \in ScannedCodes : handleBarCodeScanned(data)
  \/ LookupSettles
  \/ AlertScanAgain
  \/ AlertViewDetails
  \/ ScanAgain
  \/ ToggleTorch
  \/ SourceFlips

SpecScan == InitScan /\ [][NextScan]_vars

\* a fetch that was started settles: its promise is fulfilled or rejected
SpecScanLive == SpecScan /\ WF_vars(LookupSettles)

(***************************************************************************)
(* SpecDetail: the bin detail screen on its own.                           *)
(***************************************************************************)
DetailBin(location, status) ==
  [id |-> B1, bin_number |-> B1, location |-> location, capacity |-> MaxQty + 1,
   current_stock |-> 1, status |-> status, barcode |-> B1]

DetailBins == {DetailBin(LocPlain, "active"), DetailBin(LocTwo, "inactive")}

NextDetail ==
  \/ \E outcome \in FetchOutcomes, data \in DetailBins : BinFetched(outcome, data)
  \/ \E text \in NameTexts : DetailChangeText("location", text)
  \/ \E field \in {"capacity", "current_stock"}, text \in QtyTexts :
       DetailChangeText(field, text)
  \/ DetailSwitchStatus
  \/ HeaderToggle
  \/ handleCancel
  \/ handleSave
  \/ SaveSettles
  \/ DetailAlertPress

SpecDetail == InitClient /\ [][NextDetail]_vars

(***************************************************************************)
(* Claims.                                                                 *)
(***************************************************************************)
OverCapacity(d) ==
  Has(d, "capacity") /\ Has(d, "currentStock") /\ d.currentStock > d.capacity

\* the supplied fields of an update laid over the record its handler read
Merged(q) == Spread(q.cur, q.data)

InFlight(r) == req[r].pc \notin {"idle", "done"}

Answered(r, op) == req[r].pc = "done" /\ req[r].op = op

\* the step in which request r is answered
Answers(r) == InFlight(r) /\ req'[r].pc = "done"

StockRejected(q) == q.code = 400 /\ q.msg = StockMsg /\ q.writes = 0

SourcesUnchanged ==
  /\ s4' = s4
  /\ db' = db
  /\ \A t \in 0..MaxClock : READ(s4', t) = READ(s4, t)

\* a step after which no request holds an issued write leaves the sources alone
NoWriteNoChange ==
  (\A r \in ReqIds : req'[r].pc # "idle" => req'[r].writes = 0) => SourcesUnchanged

StoredStockWithinCapacity ==
  /\ \A i \in 1..Len(s4) :
       mapS4ToBin(s4[i], clock).currentStock <= mapS4ToBin(s4[i], clock).capacity
  /\ \A i \in 1..Len(db) : Col(db[i], "currentStock") <= Col(db[i], "capacity")

\* C1: every stored bin has currentStock <= capacity, whatever the
\* interleaving of the read, validate and write steps of concurrent requests.
C1_StockWithinCapacity == StoredStockWithinCapacity

\* C2: a create with currentStock > capacity is answered 400 "Current stock
\* cannot exceed capacity" straight from validation: it never holds a write
\* position, issues no insert, and the stored bins are unchanged.
C2_CreateOverCapacityRejected ==
  /\ [](\A r \in ReqIds :
          (req[r].pc # "idle" /\ req[r].op = "CREATE" /\ OverCapacity(req[r].data))
            => /\ req[r].pc \in {"validate", "done"}
               /\ req[r].pc = "done" => StockRejected(req[r]))
  /\ [][/\ NoWriteNoChange
        /\ \A r \in ReqIds :
             (InFlight(r) /\ req[r].op = "CREATE" /\ OverCapacity(req[r].data)
                /\ req'[r] # req[r])
               => (req'[r].pc = "done" /\ SourcesUnchanged)]_vars

C2_Witness ==
  \E r \in ReqIds :
    /\ Answered(r, "CREATE") /\ OverCapacity(req[r].data)
    /\ StockRejected(req[r]) /\ Len(s4) > 0

DuplicateMsg == "DuplicateBinNumber"

\* C4: a create whose binNumber is the binNumber of a stored bin is answered
\* with DuplicateBinNumber and neither adds nor overwrites a record.
C4_DuplicateCreateRejected ==
  [][\A r \in ReqIds :
       (Answers(r) /\ req[r].op = "CREATE" /\ Has(req[r].data, "binNumber")
          /\ S4Match(s4, req[r].data.binNumber) # {})
         => /\ req'[r].code = 400
            /\ req'[r].msg = DuplicateMsg
            /\ s4' = s4]_vars

\* C5: no two stored bins have the same binNumber.
C5_BinNumbersUnique ==
  /\ \A i, j \in 1..Len(s4) : i # j => KeyOf(s4[i]) # KeyOf(s4[j])
  /\ \A i, j \in 1..Len(db) :
       (i # j /\ Has(db[i], "binNumber") /\ Has(db[j], "binNumber"))
         => db[i].binNumber # db[j].binNumber

\* requests r1 and r2 are creates of one binNumber that both succeeded
BothCreated(r1, r2) ==
  /\ r1 # r2
  /\ Answered(r1, "CREATE") /\ req[r1].code = 200
  /\ Answered(r2, "CREATE") /\ req[r2].code = 200
  /\ req[r1].data.binNumber = req[r2].data.binNumber

\* C6: on a source that does not enforce the key, a create that has passed
\* validation succeeds and adds its record whatever other creates wrote in
\* between, so two concurrent creates of one binNumber that both succeed
\* leave two stored bins with that binNumber.
C6_ConcurrentCreatesDuplicate ==
  /\ [](\A r1, r2 \in ReqIds :
          (~uniqueKey /\ BothCreated(r1, r2))
            => Cardinality(S4Match(s4, req[r1].data.binNumber)) >= 2)
  /\ [][\A r \in ReqIds :
          (~uniqueKey /\ req[r].pc = "write" /\ req[r].op = "CREATE"
             /\ req'[r] # req[r])
            => /\ req'[r].pc = "done" /\ req'[r].code = 200
               /\ Len(s4') = Len(s4) + 1
               /\ KeyOf(s4'[Len(s4')]) = req[r].data.binNumber]_vars

C6_Witness ==
  \E r1, r2 \in ReqIds :
    /\ ~uniqueKey
    /\ BothCreated(r1, r2)
    /\ Len(s4) = 2
    /\ KeyOf(s4[1]) = KeyOf(s4[2])

MissingFieldMsg == "MissingField"

\* binNumber, location or capacity is absent or empty
MissingRequired(d) ==
  \/ ~Has(d, "binNumber") \/ d.binNumber = <<>>
  \/ ~Has(d, "location") \/ d.location = <<>>
  \/ ~Has(d, "capacity")

\* C7: a create in which binNumber, location or capacity is absent or empty
\* is answered with MissingField (also when currentStock > capacity) and
\* issues no write.
C7_MissingFieldRejected ==
  \A r \in ReqIds :
    (Answered(r, "CREATE") /\ MissingRequired(req[r].data))
      => /\ req[r].code = 400
         /\ req[r].msg = MissingFieldMsg
         /\ req[r].writes = 0

CanonicalFields ==
  {"binNumber", "location", "capacity", "currentStock", "status", "barcode"}

\* C8: when an update succeeds, every record addressed by its id reads back
\* each canonical field the request did not supply with the value the
\* handler read before the update.
C8_UpdateKeepsUnsuppliedFields ==
  [][\A r \in ReqIds :
       (Answers(r) /\ req[r].op = "UPDATE" /\ req'[r].code = 200)
         => \A i \in S4Match(s4', req[r].data.ID) :
              \A f \in CanonicalFields \ DOMAIN req[r].data :
                mapS4ToBin(s4'[i], clock)[f] = req[r].cur[f]]_vars

\* C9 as stated: toCanonical(toSource(b)) has the binNumber, capacity,
\* currentStock, status and barcode of b.
C9_RoundTripAsStated ==
  probe.stage = "back"
    => /\ probe.back.binNumber = probe.bin.binNumber
       /\ probe.back.capacity = probe.bin.capacity
       /\ probe.back.currentStock = probe.bin.currentStock
       /\ probe.back.status = probe.bin.status
       /\ probe.back.barcode = probe.bin.barcode

\* C9 as amended: toCanonical(toSource(b)) has the binNumber, capacity,
\* currentStock and status of b; its barcode is the binNumber of b, so the
\* barcode is preserved exactly when b.barcode = b.binNumber.
C9_RoundTrip ==
  probe.stage = "back"
    => /\ probe.back.binNumber = probe.bin.binNumber
       /\ probe.back.capacity = probe.bin.capacity
       /\ probe.back.currentStock = probe.bin.currentStock
       /\ probe.back.status = probe.bin.status
       /\ probe.back.barcode = probe.bin.binNumber
       /\ (probe.back.barcode = probe.bin.barcode
             <=> probe.bin.barcode = probe.bin.binNumber)

C9_Witness ==
  /\ probe.stage = "back"
  /\ probe.bin.barcode # probe.bin.binNumber
  /\ probe.bin.capacity > 9
  /\ probe.bin.currentStock # probe.bin.capacity
  /\ probe.bin.status = "inactive"

\* C10: after a successful create of a bin whose barcode differs from its
\* binNumber, getByBarcode with that barcode returns that bin (same id and
\* binNumber); getByBarcode with a barcode no stored bin has is NotFound.
C10_BarcodeLookupFindsCreatedBin ==
  /\ \A r \in ReqIds :
       (Answered(r, "CREATE") /\ req[r].code = 200 /\ Has(req[r].data, "barcode")
          /\ req[r].data.barcode # req[r].data.binNumber)
         => LET hit == getByBarcode(s4, req[r].data.barcode, clock)
            IN  /\ hit.found
                /\ hit.bin.binNumber = req[r].data.binNumber
                /\ hit.bin.ID = req[r].data.binNumber
  /\ \A bc \in {B1, B2, X1} :
       (\A i \in 1..Len(s4) : mapS4ToBin(s4[i], clock).barcode # bc)
         => getByBarcode(s4, bc, clock) = NotFound

\* the stored bins of the variant in canonical form
AllBins(impl) == IF impl = "db" THEN db ELSE READ(s4, clock)

\* the bins a statistics request of the variant fetches
FetchedBins(impl) ==
  IF impl = "db" THEN db
  ELSE SubSeq(READ(s4, clock), 1, Min(Len(s4), StatsTop))

\* the value of field k of bin i, 0 when the bin has none
ValueOf(bins, i, k) == IF Has(bins[i], k) THEN bins[i][k] ELSE 0

\* the sum of field k over the bins: units counted one by one
TotalOf(bins, k) ==
  Cardinality(UNION {{<<i, j>> : j \in 1..ValueOf(bins, i, k)} : i \in 1..Len(bins)})
  - Cardinality(UNION {{<<i, j>> : j \in 1..(0 - ValueOf(bins, i, k))} :
                         i \in 1..Len(bins)})

ActiveOf(bins) ==
  Cardinality({i \in 1..Len(bins) : Has(bins[i], "status") /\ bins[i].status = "active"})

\* d is totalStock / totalCapacity * 100 rounded to two decimals
NearestPercentage(d, totalStock, totalCapacity) ==
  /\ Has(d, "hundredths")
  /\ 2 * Abs(d.hundredths * totalCapacity - 10000 * totalStock) <= Abs(totalCapacity)

\* the four sample bins as the variant stores them, in canonical form
SampleBins(impl) == IF impl = "db" THEN SampleDb ELSE Mapped(SampleS4, clock)

SampleStatistics ==
  [totalBins |-> 4, activeBins |-> 3, inactiveBins |-> 1, totalCapacity |-> 3500,
   totalStock |-> 2150, utilizationPercentage |-> Decimal(6143)]

\* the counts and totals of st are those of bins
CountsAndTotals(st, bins) ==
  /\ st.totalBins = Len(bins)
  /\ st.activeBins = ActiveOf(bins)
  /\ st.inactiveBins = st.totalBins - st.activeBins
  /\ st.totalCapacity = TotalOf(bins, "capacity")
  /\ st.totalStock = TotalOf(bins, "currentStock")

\* C11 as stated: statistics() returns the count, the active and inactive
\* counts, the capacity and stock totals of all stored bins and their quotient
\* times 100 rounded to two decimals; 4, 3, 1, 3500, 2150, 61.43 for the four
\* sample bins.
C11_StatisticsAsStated ==
  [][\A r \in ReqIds :
       (Answers(r) /\ req[r].op = "STATS")
         => LET st   == req'[r].result
                bins == AllBins(req[r].impl)
            IN  /\ req'[r].code = 200
                /\ CountsAndTotals(st, bins)
                /\ TotalOf(bins, "capacity") # 0
                     => NearestPercentage(st.utilizationPercentage,
                                          st.totalStock, st.totalCapacity)
                /\ bins = SampleBins(req[r].impl) => st = SampleStatistics]_vars

\* C11 as amended: the counts and totals are those of the bins the single
\* read of statistics() returns (every stored bin of the local database, the
\* first 1000 records of the S/4HANA entity set), and utilizationPercentage is
\* the quotient times 100 rounded to two decimals when totalCapacity > 0 and
\* 0 otherwise; 4, 3, 1, 3500, 2150, 61.43 for the four sample bins.
C11_Statistics ==
  [][\A r \in ReqIds :
       (Answers(r) /\ req[r].op = "STATS")
         => LET st   == req'[r].result
                bins == FetchedBins(req[r].impl)
            IN  /\ req'[r].code = 200
                /\ CountsAndTotals(st, bins)
                /\ IF st.totalCapacity > 0
                   THEN NearestPercentage(st.utilizationPercentage,
                                          st.totalStock, st.totalCapacity)
                   ELSE st.utilizationPercentage = Decimal(0)
                /\ bins = SampleBins(req[r].impl) => st = SampleStatistics]_vars

C11_Witness ==
  \E r \in ReqIds :
    /\ Answered(r, "STATS") /\ req[r].impl = "s4" /\ s4 = SampleS4
    /\ req[r].result.totalBins = 4
    /\ req[r].result.utilizationPercentage = Decimal(6143)

\* C12: statistics() over no bins returns 0 in all six fields, and over bins
\* whose capacities add up to 0 it returns utilizationPercentage 0; both are
\* answered as a success.
C12_StatisticsZeroCapacity ==
  [][\A r \in ReqIds :
       (Answers(r) /\ req[r].op = "STATS")
         => LET st   == req'[r].result
                bins == AllBins(req[r].impl)
            IN  /\ bins = <<>>
                     => /\ req'[r].code = 200
                        /\ st = [totalBins |-> 0, activeBins |-> 0, inactiveBins |-> 0,
                                 totalCapacity |-> 0, totalStock |-> 0,
                                 utilizationPercentage |-> Decimal(0)]
                /\ TotalOf(bins, "capacity") = 0
                     => /\ req'[r].code = 200
                        /\ st.utilizationPercentage = Decimal(0)]_vars

C12_Witness ==
  \E r \in ReqIds :
    /\ Answered(r, "STATS")
    /\ AllBins(req[r].impl) # <<>>
    /\ TotalOf(AllBins(req[r].impl), "capacity") = 0
    /\ TotalOf(AllBins(req[r].impl), "currentStock") # 0
    /\ req[r].result.utilizationPercentage = Decimal(0)

\* requests r1 and r2 are answered reads of which r1 searches for the empty
\* string and r2 is the same read without a search
EmptySearchTwins(r1, r2) ==
  /\ Answered(r1, "READ") /\ Answered(r2, "READ")
  /\ TermsAsked(req[r1].data) = {<<>>}
  /\ req[r2].data = WithoutSearch(req[r1].data)

\* C13: a list whose search is the empty string sends no search predicate:
\* its source query, its outcome and the bins it returns are those of the
\* same list (same status filter, same pagination) without a search.
C13_EmptySearchNoFilter ==
  /\ \A r \in ReqIds :
       (Answered(r, "READ") /\ TermsAsked(req[r].data) = {<<>>})
         => \A i \in 1..Len(req[r].sent.filter) :
              req[r].sent.filter[i].kind # "substringof"
  /\ \A r1, r2 \in ReqIds :
       EmptySearchTwins(r1, r2)
         => /\ req[r1].sent = req[r2].sent
            /\ req[r1].code = req[r2].code
            /\ req[r1].code = 200 => req[r1].result = req[r2].result

C13_Witness ==
  \E r1, r2 \in ReqIds :
    /\ EmptySearchTwins(r1, r2)
    /\ req[r1].code = 200 /\ Len(req[r1].result) >= 2
    /\ Len(req[r1].result) < Len(s4)

\* canonical bin b satisfies what the SELECT asks for: the search term is a
\* substring of its binNumber, location or barcode, and its status is the
\* status asked for
StatusText(b) == IF b.status = "active" THEN ActiveText ELSE InactiveText

MatchesAsked(b, SELECT) ==
  /\ \A t \in TermsAsked(SELECT) :
       \/ IsSubstring(t, b.binNumber)
       \/ IsSubstring(t, b.location)
       \/ IsSubstring(t, b.barcode)
  /\ \A st \in StatusesAsked(SELECT) : StatusText(b) = st

\* the source fields the canonical fields binNumber, location and barcode
\* are read from
SearchedSourceFields == {"StorageBin", "Warehouse", "StorageType"}

\* C19: the filter list sends is the AND of a substring match of the search
\* term over the source fields of binNumber, location and barcode (when a
\* non-empty search is asked for) and an equality test of the blocking flag
\* (when a status is asked for); every bin returned satisfies both, and a
\* list without pagination returns every stored bin that does.
C19_FilterIsConjunction ==
  \A r \in ReqIds :
    (Answered(r, "READ") /\ KeysAsked(req[r].data) = {} /\ req[r].code = 200)
      => LET SELECT == req[r].data
             filter == req[r].sent.filter
         IN  /\ \A t \in TermsAsked(SELECT) \ {<<>>} :
                  \E i \in 1..Len(filter) :
                    /\ filter[i].kind = "substringof" /\ filter[i].term = t
                    /\ filter[i].fields = SearchedSourceFields
             /\ \A st \in StatusesAsked(SELECT) :
                  \E i \in 1..Len(filter) :
                    /\ filter[i].kind = "eq" /\ filter[i].field = "BlockingIndicator"
                    /\ filter[i].value = IF st = ActiveText THEN <<>> ELSE X
             /\ \A i \in 1..Len(req[r].result) :
                  MatchesAsked(req[r].result[i], SELECT)
             /\ (LimitsAsked(SELECT) = {} /\ SkipsAsked(SELECT) = {})
                  => \A j \in 1..Len(s4) :
                       MatchesAsked(mapS4ToBin(s4[j], clock), SELECT)
                         => \E i \in 1..Len(req[r].result) :
                              req[r].result[i].ID = mapS4ToBin(s4[j], clock).ID

\* C20: the query list sends has the limit asked for as $top, 100 when none
\* is asked for, and the skip asked for as $skip, 0 when none is asked for.
C20_PaginationCarried ==
  \A r \in ReqIds :
    (Answered(r, "READ") /\ KeysAsked(req[r].data) = {}
       /\ \A n \in LimitsAsked(req[r].data) : n > 0)
      => /\ \A n \in LimitsAsked(req[r].data) : req[r].sent.top = toString(n)
         /\ LimitsAsked(req[r].data) = {} => req[r].sent.top = toString(100)
         /\ \A m \in SkipsAsked(req[r].data) : req[r].sent.skip = toString(m)
         /\ SkipsAsked(req[r].data) = {} => req[r].sent.skip = toString(0)

InvalidIdMsg == "InvalidId"

\* C14: getById returns the one stored bin whose id is the id asked for; it
\* is answered NotFound when no stored bin has that id and InvalidId when
\* the id is malformed (empty).
C14_GetByIdReturnsThatBin ==
  \A r \in ReqIds :
    (Answered(r, "READ") /\ KeysAsked(req[r].data) # {})
      => \A id \in KeysAsked(req[r].data) :
           IF id = <<>> THEN req[r].code = 400 /\ req[r].msg = InvalidIdMsg
           ELSE IF S4Match(s4, id) = {}
                THEN req[r].code = 404 /\ req[r].msg = NotFoundMsg
           ELSE /\ req[r].code = 200
                /\ Len(req[r].result) = 1
                /\ req[r].result[1].ID = id

\* C15: a delete removes exactly the bin with that id, after which no bin is
\* stored under the id; the delete of an id no bin has fails with NotFound and
\* the delete of a malformed (empty) id with InvalidId, nothing being removed.
C15_DeleteRemovesThatBin ==
  [][\A r \in ReqIds :
       (Answers(r) /\ req[r].op = "DELETE") =>
         LET id == req[r].data.ID
         IN  IF id = Empty
             THEN /\ req'[r].code = 400 /\ req'[r].msg = InvalidIdMsg
                  /\ SourcesUnchanged
             ELSE IF S4Match(s4, id) = {}
             THEN /\ req'[r].code = 404 /\ req'[r].msg = NotFoundMsg
                  /\ SourcesUnchanged
             ELSE /\ req'[r].code = 200
                  /\ \E i \in S4Match(s4, id) : s4' = Remove(s4, i)
                  /\ S4Match(s4', id) = {}]_vars

\* C16: the update of an id no bin is stored under fails with NotFound, and
\* nothing is written to the source.
C16_UpdateAbsentNotFound ==
  [][\A r \in ReqIds :
       (/\ Answers(r) /\ req[r].op = "UPDATE" /\ req[r].impl = "s4"
        /\ S4Match(s4, req[r].data.ID) = {}) =>
         /\ req'[r].code = 404 /\ req'[r].msg = NotFoundMsg
         /\ req'[r].writes = 0
         /\ SourcesUnchanged]_vars

\* C17: the createdAt a bin is returned with is the one its creation
\* returned, at every later read, and every successful create or update
\* returns the bin with lastUpdated set to the time of that operation.
C17_CreatedAtImmutable ==
  /\ [](\A r1, r2 \in ReqIds :
          (/\ Answered(r1, "CREATE") /\ req[r1].code = 200
           /\ Answered(r2, "READ") /\ req[r2].code = 200) =>
            \A i \in 1..Len(req[r2].result) :
              req[r2].result[i].ID = req[r1].result.ID =>
                req[r2].result[i].createdAt = req[r1].result.createdAt)
  /\ [][\A r \in ReqIds :
          (/\ Answers(r) /\ req[r].op \in {"CREATE", "UPDATE"}
           /\ req'[r].code = 200) =>
            req'[r].result.lastUpdated = clock]_vars

\* the position of a handler at which its next step is a call of the source
AtSourceCall(q) == q.impl = "s4" /\ q.pc \in {"read", "write", "reread", "query"}

FailMsgOf(op) ==
  CASE op = "CREATE" -> CreateFailMsg
    [] op = "UPDATE" -> UpdateFailMsg
    [] op = "DELETE" -> DeleteFailMsg
    [] op = "READ"   -> ReadFailMsg
    [] op = "STATS"  -> StatsFailMsg

InvalidQueryMsg == "InvalidQuery"

\* C21: a list whose limit is 0 or less, or whose skip is negative, fails
\* with InvalidQuery and sends no query to the source; every other list
\* sends a query the source accepts.
C21_InvalidQueryRejected ==
  \A r \in ReqIds :
    (Answered(r, "READ") /\ KeysAsked(req[r].data) = {}) =>
      IF \/ \E n \in LimitsAsked(req[r].data) : n <= 0
         \/ \E m \in SkipsAsked(req[r].data) : m < 0
      THEN /\ req[r].code = 400 /\ req[r].msg = InvalidQueryMsg
           /\ ~Has(req[r], "sent")
      ELSE Has(req[r], "sent") /\ ~S4QueryFails(req[r].sent)

\* a request that carries a negative capacity or a negative currentStock
CarriesNegative(d) ==
  \/ Has(d, "capacity") /\ d.capacity < 0
  \/ Has(d, "currentStock") /\ d.currentStock < 0

\* C22: every stored bin has capacity >= 0 and currentStock >= 0, and a
\* create or update that carries a negative capacity or a negative
\* currentStock is rejected without a write.
C22_QuantitiesNonNegative ==
  /\ [](/\ \A i \in 1..Len(s4) :
             LET bin == mapS4ToBin(s4[i], clock)
             IN  bin.capacity >= 0 /\ bin.currentStock >= 0
        /\ \A i \in 1..Len(db) :
             Col(db[i], "capacity") >= 0 /\ Col(db[i], "currentStock") >= 0)
  /\ [][\A r \in ReqIds :
          (/\ Answers(r) /\ req[r].op \in {"CREATE", "UPDATE"}
           /\ CarriesNegative(req[r].data)) =>
            /\ req'[r].code = 400
            /\ req'[r].writes = 0
            /\ SourcesUnchanged]_vars

\* the fields an update supplies
Supplied(d) == DOMAIN d \ {"ID"}

\* C23: when two updates of one bin that supply disjoint fields have both
\* succeeded, the stored bin holds the values of both.
C23_ConcurrentUpdatesBothKept ==
  \A r1, r2 \in ReqIds :
    (/\ r1 # r2
     /\ Answered(r1, "UPDATE") /\ req[r1].code = 200
     /\ Answered(r2, "UPDATE") /\ req[r2].code = 200
     /\ req[r1].data.ID = req[r2].data.ID
     /\ Supplied(req[r1].data) \cap Supplied(req[r2].data) = {}) =>
      \A i \in S4Match(s4, req[r1].data.ID) :
        LET bin == mapS4ToBin(s4[i], clock)
        IN  \A k \in Supplied(req[r1].data) : bin[k] = req[r1].data[k]

\* the positions at which the delimiter " - " starts in a location
DelimAt(location) ==
  {i \in 1..(Len(location) - Len(Delim) + 1) :
     SubSeq(location, i, i + Len(Delim) - 1) = Delim}

FirstDelim(location) ==
  CHOOSE i \in DelimAt(location) : \A j \in DelimAt(location) : i <= j

\* the parts of a location before and after the first delimiter
FirstPart(location) ==
  IF DelimAt(location) = {} THEN location
  ELSE SubSeq(location, 1, FirstDelim(location) - 1)

SecondPart(location) ==
  IF DelimAt(location) = {} THEN <<>>
  ELSE SubSeq(location, FirstDelim(location) + Len(Delim), Len(location))

\* C24: toSource puts the part of location before the first " - " into
\* Warehouse and the part after it into StorageType, whatever hyphens the
\* parts contain; StorageType is "BULK" exactly when there is no second part.
C24_LocationSplitAtFirstDelimiter ==
  probe.stage \in {"s4", "back"} =>
    /\ probe.rec.Warehouse = FirstPart(probe.bin.location)
    /\ probe.rec.StorageType =
         IF SecondPart(probe.bin.location) = <<>> THEN BULK
         ELSE SecondPart(probe.bin.location)

\* a bin of the given status
BinOfStatus(status) ==
  [binNumber |-> B1, location |-> LocTwo, capacity |-> 0, currentStock |-> 0,
   status |-> status]

\* the blocking indicator of a record is absent or empty
Unblocked(rec) == ~Has(rec, "BlockingIndicator") \/ rec.BlockingIndicator = <<>>

\* C25: toSource encodes active as the empty blocking indicator and inactive
\* as "X"; toCanonical yields active exactly for an absent or empty blocking
\* indicator; a list that asks for a status alone, without search or
\* pagination, returns exactly the stored bins of that canonical status.
C25_StatusEncoding ==
  /\ mapBinToS4(BinOfStatus("active")).BlockingIndicator = <<>>
  /\ mapBinToS4(BinOfStatus("inactive")).BlockingIndicator = X
  /\ \A i \in 1..Len(s4) :
       mapS4ToBin(s4[i], clock).status = "active" <=> Unblocked(s4[i])
  /\ \A r \in ReqIds :
       (/\ Answered(r, "READ") /\ KeysAsked(req[r].data) = {}
        /\ TermsAsked(req[r].data) = {} /\ LimitsAsked(req[r].data) = {}
        /\ SkipsAsked(req[r].data) = {}) =>
         \A st \in StatusesAsked(req[r].data) :
           LET Wanted(bin) == StatusText(bin) = st
           IN  /\ req[r].code = 200
               /\ req[r].result = SelectSeq(READ(s4, clock), Wanted)

\* C26: statistics() over at most 1000 stored bins counts and totals every
\* stored bin; over more than 1000 stored bins its one read is bounded and
\* it reports totalBins <= 1000.
C26_StatisticsReadBounded ==
  [][\A r \in ReqIds :
       (Answers(r) /\ req[r].op = "STATS")
         => LET st   == req'[r].result
                bins == AllBins(req[r].impl)
            IN  /\ req[r].pc = "query"
                /\ req'[r].code = 200
                /\ IF Len(bins) <= StatsTop THEN CountsAndTotals(st, bins)
                   ELSE st.totalBins <= StatsTop]_vars

\* client validation as the form states it: bin number and location not
\* blank, capacity > 0 and 0 <= stock <= capacity (an empty stock counts as 0)
ClientValid(formData) ==
  /\ trim(formData.bin_number) # <<>>
  /\ trim(formData.location) # <<>>
  /\ IntOr0(formData.capacity) > 0
  /\ 0 <= IntOr0(formData.current_stock)
  /\ IntOr0(formData.current_stock) <= IntOr0(formData.capacity)

\* C27: the create form sends a POST only from a form that passes client
\* validation and only while it is not loading; a submit of a form that fails
\* validation sends nothing and leaves loading false; at most one request is
\* in flight, loading is true exactly while it is, and every outcome of the
\* request sets loading to false.
C27_CreateFormSubmitsOnce ==
  /\ [](/\ Len(createForm.inFlight) <= 1
        /\ createForm.loading <=> createForm.inFlight # <<>>)
  /\ [][/\ Len(createForm'.inFlight) > Len(createForm.inFlight) =>
             /\ ClientValid(createForm.formData)
             /\ ~createForm.loading /\ createForm'.loading
        /\ (~ClientValid(createForm.formData) /\ ~createForm.loading) =>
             /\ createForm'.inFlight = createForm.inFlight
             /\ ~createForm'.loading
        /\ Len(createForm'.inFlight) < Len(createForm.inFlight) =>
             ~createForm'.loading]_vars

\* a request is in flight while the form has been edited into one that does
\* not pass validation
C27_Witness ==
  /\ createForm.loading /\ Len(createForm.inFlight) = 1
  /\ ~ClientValid(createForm.formData)

\* C28: a barcode lookup starts only while nothing has been scanned, no lookup
\* is in flight and no result dialog is open; from the scan on, scanned stays
\* true until a Scan Again or Try Again is pressed, so at most one lookup is
\* in flight and none while a dialog is unanswered.
C28_OneLookupAtATime ==
  /\ [](/\ Len(scanScreen.inFlight) + Len(scanScreen.alerts) <= 1
        /\ (scanScreen.inFlight # <<>> \/ scanScreen.alerts # <<>>)
             => scanScreen.scanned)
  /\ [][/\ Len(scanScreen'.inFlight) > Len(scanScreen.inFlight) =>
             /\ ~scanScreen.scanned
             /\ scanScreen.inFlight = <<>> /\ scanScreen.alerts = <<>>
        /\ (scanScreen.scanned /\ ~scanScreen'.scanned) =>
             /\ scanScreen.inFlight = <<>>
             /\ scanScreen'.alerts = <<>>]_vars

\* the dialog of a failed lookup is open
C28_Witness ==
  /\ scanScreen.scanned /\ ~scanScreen.loading
  /\ scanScreen.alerts = <<"Error">>

C30_CancelRestoresForm ==
  [][(/\ detailScreen.isEditing /\ ~detailScreen'.isEditing
      /\ ~detailScreen.saving) =>
        detailScreen'.formData = FormOf(detailScreen'.bin)]_vars
====
